---- MODULE Spec2Model ----
(***************************************************************************)
(* Model of darts' RegressionModel (regression_model.py): the lagged-data  *)
(* builder, fit, and the autoregressive predict loop.                      *)
(*                                                                         *)
(* Time is counted in steps of the series' frequency, so a time stamp is   *)
(* an integer and ts.freq is one step.  A TimeSeries is a record           *)
(* [start, vals]: vals[i] is the row of component values at time           *)
(* start + i - 1.  Values are records, so that an observed value, a        *)
(* missing value (NaN), a number and a regressor output are all            *)
(* comparable with one another.                                            *)
(***************************************************************************)
EXTENDS Integers, Sequences, FiniteSets, TLC

VARIABLES
    lags,                 \* self.lags: group -> stored lag list (<<>>: key absent)
    output_chunk_length,  \* self.output_chunk_length
    input_dim,            \* self.input_dim (NoneDim before the first fit)
    model,                \* self.model: the regressor and what it was fitted on
    probabilistic,        \* self._is_probabilistic()
    training_series,      \* the series fit stored: <<ts>> after a single-series fit
    covariate_series,     \* the covariates fit stored with it, per group (<<>>: None)
    pc,                   \* position of the predict call / builder call
    call,                 \* arguments of the call in progress or last made
    covariate_matrices,   \* predict's covariate windows, one row per (episode, draw)
    series_matrix,        \* predict's trailing target window, per (episode, draw)
    predictions,          \* predict's list of blocks generated so far
    X,                    \* feature rows of the last regressor invocation
    t_pred,               \* loop offset of the last regressor invocation
    outcome,              \* how the last call ended
    forecast,             \* what predict returned: [episode][step][component][draw]
    built,                \* what _create_lagged_data returned
    tags,                 \* what the regressor given to the constructor declares
    wrapped,              \* MultiOutputRegressor layers around self.model
    likelihood,           \* the sampling strategy of the model ("none": point forecasts)
    model_container,      \* self._model_container: <<[quantile, regressor], ...>>
    rng,                  \* state of the model's pseudo-random generator
    settings,             \* what _model_encoder_settings returned
    encoder               \* an encoder of covariates, or the steps asked for the encoders

vars == <<lags, output_chunk_length, input_dim, model, probabilistic, training_series,
          covariate_series, pc, call, covariate_matrices, series_matrix, predictions, X, t_pred,
          outcome, forecast, built, tags, wrapped, likelihood, model_container, rng,
          settings, encoder>>

-----------------------------------------------------------------------------
(* Bounds of the model *)

MaxN == 3          \* largest forecast horizon n
MaxL == 2          \* largest output_chunk_length
MaxWidth == 2      \* largest number of components of a series
MaxEpisodes == 2   \* largest number of series in one call
MaxHist == 3       \* longest target history given to predict
MaxTrain == 5      \* longest target series given to the builder
MaxCap == 2        \* largest max_samples_per_ts
MaxLagCount == 2   \* largest integer given as `lags` to the constructor
ScenarioLen == 10  \* length of the series 0, 1, 2, ... of the worked example

-----------------------------------------------------------------------------
(* Values *)

NaN == [kind |-> "nan"]
Num(v) == [kind |-> "num", v |-> v]
\* the value observed in series g of episode e at time t, component c
Obs(g, e, t, c) == [kind |-> g, e |-> e, t |-> t, c |-> c]
\* column j (0-based) of what the fitted regressor returns for feature row x
Yhat(x, j) == [kind |-> "yhat", x |-> x, j |-> j]

\* a regressor that declares nothing (no _get_tags)
NoTags == [multioutput |-> FALSE, uncertainty |-> FALSE]
\* a regressor with _get_tags()["multioutput"]
Native == [multioutput |-> TRUE, uncertainty |-> FALSE]
\* a CatBoostRegressor with loss_function "RMSEWithUncertainty"
NativeUncertainty == [multioutput |-> TRUE, uncertainty |-> TRUE]
\* _model_encoder_settings has not been asked
NoSettings == [asked |-> FALSE]
NoEncoder == [kind |-> "none"]
NoWidth == 0       \* None as the width of an absent covariate group
NoneDim == [none |-> TRUE]

Min(S) == CHOOSE a \in S : \A b \in S : a <= b
Max(S) == CHOOSE a \in S : \A b \in S : a >= b

RECURSIVE Flatten(_)
\* row-major flattening of a sequence of sequences
Flatten(ss) == IF ss = <<>> THEN <<>> ELSE Head(ss) \o Flatten(Tail(ss))

CeilDiv(a, b) == (a + b - 1) \div b

-----------------------------------------------------------------------------
(* TimeSeries *)

MkSeries(g, e, start, len, w) ==
    [start |-> start,
     vals  |-> [i \in 1..len |-> [c \in 1..w |-> Obs(g, e, start + i - 1, c)]]]

StartTime(ts) == ts.start
EndTime(ts) == ts.start + Len(ts.vals) - 1
Width(ts) == Len(ts.vals[1])

\* ts[k:] for a negative integer k: the last -k rows, all rows when ts is shorter
TailSlice(ts, k) ==
    LET len == Len(ts.vals)
        from == IF len + k < 0 THEN 0 ELSE len + k
    IN  SubSeq(ts.vals, from + 1, len)

\* cov.slice(a, b).values with both ends inclusive
SliceValues(ts, a, b) ==
    LET lo == IF a < ts.start THEN ts.start ELSE a
        hi == IF b > EndTime(ts) THEN EndTime(ts) ELSE b
    IN  [i \in 1..(IF hi >= lo THEN hi - lo + 1 ELSE 0) |-> ts.vals[lo - ts.start + i]]

-----------------------------------------------------------------------------
(* pandas: a DataFrame is a function from its time index to rows *)

NaNRow(w) == [c \in 1..w |-> NaN]

\* ts.pd_dataframe()
PdDataframe(ts) ==
    [t \in StartTime(ts)..EndTime(ts) |-> ts.vals[t - ts.start + 1]]

DfWidth(df) == Len(df[CHOOSE t \in DOMAIN df : TRUE])

\* df.shift(periods): the rows move down by `periods` places, the index stays
Shift(df, periods) ==
    [t \in DOMAIN df |->
        IF t - periods \in DOMAIN df THEN df[t - periods] ELSE NaNRow(DfWidth(df))]

\* pd.concat(dfs, axis=1): outer join on the index, columns side by side
ConcatCols(dfs) ==
    [t \in UNION {DOMAIN dfs[k] : k \in DOMAIN dfs} |->
        Flatten([k \in DOMAIN dfs |->
            IF t \in DOMAIN dfs[k] THEN dfs[k][t] ELSE NaNRow(DfWidth(dfs[k]))])]

RECURSIVE SortedSeq(_)
SortedSeq(S) == IF S = {} THEN <<>> ELSE <<Min(S)>> \o SortedSeq(S \ {Min(S)})

HasNaN(row) == \E c \in DOMAIN row : row[c] = NaN

\* the index labels df.dropna() keeps, in index order
DropnaIndex(df) == SortedSeq({t \in DOMAIN df : ~HasNaN(df[t])})

\* df.dropna().values
DropnaValues(df) ==
    LET keep == DropnaIndex(df) IN [i \in DOMAIN keep |-> df[keep[i]]]

\* a slip: the cap keeps the oldest rows, a[:m]
FirstRows(a, m) == IF Len(a) <= m THEN a ELSE SubSeq(a, 1, m)

\* a[-m:] for m > 0
LastRows(a, m) == IF Len(a) <= m THEN a ELSE SubSeq(a, Len(a) - m + 1, Len(a))

-----------------------------------------------------------------------------
(* RegressionModel.__init__: an integer lag count *)

\* a slip: the lags counted from -1 backwards
LagsFromCountDescending(k) == [i \in 1..k |-> -i]

\* list(range(-k, 0))
LagsFromCount(k) == [i \in 1..k |-> -k + i - 1]

-----------------------------------------------------------------------------
(* RegressionModel._create_lagged_data *)

NoCap == 0         \* max_samples_per_ts = None

\* a slip: one label step too many
LabelFramesInclusive(L, df_target) ==
    [s \in 1..(L + 1) |-> Shift(df_target, -(s - 1))]

\* the frames appended to df_y: the target shifted back by 0..L-1
LabelFrames(L, df_target) ==
    [s \in 1..L |-> Shift(df_target, -(s - 1))]

\* the frames appended to df_X for one group: one shifted frame per stored lag
LagFrames(group_lags, df) ==
    [i \in DOMAIN group_lags |-> Shift(df, -group_lags[i])]

\* df_X of one episode: target lags, then past, then future covariate lags
FeatureFrames(lg, df_target, df_past, df_future) ==
    LagFrames(lg.target, df_target)
        \o LagFrames(lg.past, df_past)
        \o LagFrames(lg.future, df_future)

\* a covariate frame is needed (and read) only when its group has lags
CovMissing(lg, past_covariates, future_covariates) ==
    \/ lg.past # <<>> /\ past_covariates = <<>>
    \/ lg.future # <<>> /\ future_covariates = <<>>

CovFrame(covs, idx) ==
    IF covs = <<>> THEN <<>> ELSE PdDataframe(covs[idx])

\* df_X of episode idx
EpisodeX(lg, target_series, past_covariates, future_covariates, idx) ==
    ConcatCols(FeatureFrames(lg, PdDataframe(target_series[idx]),
                             CovFrame(past_covariates, idx),
                             CovFrame(future_covariates, idx)))

\* df_X_y of episode idx, before dropna
EpisodeFrame(lg, L, target_series, past_covariates, future_covariates, idx) ==
    LET df_X == EpisodeX(lg, target_series, past_covariates, future_covariates, idx)
        df_y == ConcatCols(LabelFrames(L, PdDataframe(target_series[idx])))
    IN  ConcatCols(<<df_X, df_y>>)

\* X_y of episode idx after dropna and the cap
EpisodeRows(lg, L, target_series, past_covariates, future_covariates, cap, idx) ==
    LET X_y == DropnaValues(EpisodeFrame(lg, L, target_series, past_covariates,
                                         future_covariates, idx))
    IN  IF cap # NoCap THEN LastRows(X_y, cap) ELSE X_y

\* np.split(X_y, [df_X.shape[1]], axis=1)
SplitCols(rows, k) ==
    [X |-> [i \in DOMAIN rows |-> SubSeq(rows[i], 1, k)],
     y |-> [i \in DOMAIN rows |-> SubSeq(rows[i], k + 1, Len(rows[i]))]]

\* The whole builder.  Result: [status, idx, X, y]; idx is the 0-based index of
\* the episode the error names (NoIndex when the message names none).
NoIndex == -1

\* a slip: the message names the episode also when it is the only one
ErrorIndexAlways(E, idx) == idx - 1

\* the index the error message names for episode idx (1-based here) of E
ErrorIndex(E, idx) == IF E > 1 THEN idx - 1 ELSE NoIndex

CreateLaggedData(lg, L, target_series, past_covariates, future_covariates, cap) ==
    LET E == Len(target_series)
        rows(idx) == EpisodeRows(lg, L, target_series, past_covariates,
                                 future_covariates, cap, idx)
        empty == {idx \in 1..E : Len(rows(idx)) = 0}
        parts == [idx \in 1..E |->
                     SplitCols(rows(idx),
                               DfWidth(EpisodeX(lg, target_series, past_covariates,
                                                future_covariates, idx)))]
    IN  IF CovMissing(lg, past_covariates, future_covariates)
          THEN [status |-> "AttributeError", idx |-> NoIndex, X |-> <<>>, y |-> <<>>]
        ELSE IF lg.target = <<>> /\ lg.past = <<>> /\ lg.future = <<>>
          THEN [status |-> "ValueError", idx |-> NoIndex, X |-> <<>>, y |-> <<>>]
        ELSE IF empty # {}
          THEN [status |-> "DataInsufficiency",
                idx |-> ErrorIndex(E, Min(empty)),
                X |-> <<>>, y |-> <<>>]
        ELSE [status |-> "ok", idx |-> NoIndex,
              X |-> Flatten([idx \in 1..E |-> parts[idx].X]),
              y |-> Flatten([idx \in 1..E |-> parts[idx].y])]

-----------------------------------------------------------------------------
(* numpy *)

\* a[i] for a Python index i (negative: counted from the end)
InRange(a, i) == -Len(a) <= i /\ i < Len(a)
PyAt(a, i) == IF i < 0 THEN a[Len(a) + i + 1] ELSE a[i + 1]

\* a[:m] for m >= 0
Take(a, m) == SubSeq(a, 1, IF m < Len(a) THEN m ELSE Len(a))

\* np.repeat(a, k, axis=0): every row k times, the copies of a row side by side
Repeat(a, k) == [r \in 1..(Len(a) * k) |-> a[((r - 1) \div k) + 1]]

-----------------------------------------------------------------------------
(* RegressionModel.predict: the steps before the loop *)

\* a slip: covariates that are not given count with the width recorded at fit
InputDimLenient(series, past_covariates, future_covariates) ==
    [target |-> Width(series[1]),
     past   |-> IF past_covariates # <<>> THEN Width(past_covariates[1])
                ELSE IF input_dim = NoneDim THEN NoWidth ELSE input_dim.past,
     future |-> IF future_covariates # <<>> THEN Width(future_covariates[1])
                ELSE IF input_dim = NoneDim THEN NoWidth ELSE input_dim.future]

\* a slip: for the covariates only their presence is recorded
InputDimPresence(series, past_covariates, future_covariates) ==
    [target |-> Width(series[1]),
     past   |-> IF past_covariates # <<>> THEN 1 ELSE NoWidth,
     future |-> IF future_covariates # <<>> THEN 1 ELSE NoWidth]

\* pred_input_dim / self.input_dim of the series given to a call
InputDim(series, past_covariates, future_covariates) ==
    [target |-> Width(series[1]),
     past   |-> IF past_covariates # <<>> THEN Width(past_covariates[1]) ELSE NoWidth,
     future |-> IF future_covariates # <<>> THEN Width(future_covariates[1]) ELSE NoWidth]

\* number of regressor invocations the horizon needs
NPredSteps(n, L) == CeilDiv(n, L)

FirstPredTs(ts) == EndTime(ts) + 1
\* a slip: the last prediction step taken for the start of the last block
LastPredTsAtHorizon(ts, n, L) == EndTime(ts) + 1 + (n - 1)

LastPredTs(ts, n, L) == FirstPredTs(ts) + (NPredSteps(n, L) - 1) * L
FirstReqTs(ts, group_lags) == FirstPredTs(ts) + group_lags[1]
LastReqTs(ts, group_lags, n, L) == LastPredTs(ts, n, L) + group_lags[Len(group_lags)]

\* the check for sufficient covariate data of one (series, covariate) pair
Covers(cov, ts, group_lags, n, L) ==
    /\ StartTime(cov) <= FirstReqTs(ts, group_lags)
    /\ EndTime(cov) >= LastReqTs(ts, group_lags, n, L)

\* 1-based positions of the pairs of zip(series, covs) that fail the check
Uncovered(series, covs, group_lags, n, L) ==
    {idx \in 1..Min({Len(series), Len(covs)}) :
        ~Covers(covs[idx], series[idx], group_lags, n, L)}

\* covariate_matrices[cov_type] before np.repeat
CovariateMatrix(series, covs, group_lags, n, L) ==
    [idx \in 1..Min({Len(series), Len(covs)}) |->
        SliceValues(covs[idx], FirstReqTs(series[idx], group_lags),
                    LastReqTs(series[idx], group_lags, n, L))]

\* relative_cov_lags[cov_type]
RelativeCovLags(group_lags) ==
    [i \in DOMAIN group_lags |-> group_lags[i] - group_lags[1]]

\* series_matrix before np.repeat
SeriesMatrix(series, target_lags) ==
    IF target_lags # <<>>
      THEN [idx \in DOMAIN series |-> TailSlice(series[idx], target_lags[1])]
      ELSE <<>>

-----------------------------------------------------------------------------
(* RegressionModel.predict: one iteration of the loop *)

\* a slip: the target lags are read from the original window alone
TargetMatrixRowNoFeedback(sm, preds, r) == sm[r]

\* row r of np.concatenate([series_matrix, *predictions], axis=1)
TargetMatrixRow(sm, preds, r) ==
    sm[r] \o Flatten([k \in DOMAIN preds |-> preds[k][r]])

\* np.concatenate([series_matrix, *predictions], axis=1) takes arrays that
\* agree in every axis but the second; it is only called with target lags
ConcatOk(lg, sm, preds) ==
    lg.target # <<>> =>
        \A k \in DOMAIN preds :
            /\ Len(preds[k]) = Len(sm)
            /\ sm[1] # <<>> => Len(preds[k][1][1]) = Len(sm[1][1])

\* the Python indices read from a row of the target matrix
TargetReadIdx(target_lags) == target_lags

\* a slip: the covariate window is read at the same positions in every iteration
CovReadIdxFixed(group_lags, t) ==
    [i \in DOMAIN group_lags |-> group_lags[i] - group_lags[1]]

\* the Python indices read from a row of a covariate window at offset t
CovReadIdx(group_lags, t) ==
    [i \in DOMAIN group_lags |-> RelativeCovLags(group_lags)[i] + t]

\* a[idxs].reshape(-1) for one row a of a matrix: lag-major, component-minor
Gather(a, idxs) == Flatten([i \in DOMAIN idxs |-> PyAt(a, idxs[i])])

GatherOk(a, idxs) == \A i \in DOMAIN idxs : InRange(a, idxs[i])

\* a slip: the future covariate lags are appended before the past ones
FeaturePartsFutureFirst(lg, sm, cm, preds, r, t) ==
    (IF lg.target # <<>>
       THEN <<[a |-> sm[r] \o Flatten([k \in DOMAIN preds |-> preds[k][r]]),
               idxs |-> lg.target]>>
       ELSE <<>>)
    \o (IF cm.future # <<>>
          THEN <<[a |-> cm.future[r],
                  idxs |-> [i \in DOMAIN lg.future |-> lg.future[i] - lg.future[1] + t]]>>
          ELSE <<>>)
    \o (IF cm.past # <<>>
          THEN <<[a |-> cm.past[r],
                  idxs |-> [i \in DOMAIN lg.past |-> lg.past[i] - lg.past[1] + t]]>>
          ELSE <<>>)

\* what np_X holds for row r at offset t, in append order; a covariate group
\* contributes when covariate_matrices has its key
FeatureParts(lg, sm, cm, preds, r, t) ==
    (IF lg.target # <<>>
       THEN <<[a |-> TargetMatrixRow(sm, preds, r), idxs |-> TargetReadIdx(lg.target)]>>
       ELSE <<>>)
    \o (IF cm.past # <<>>
          THEN <<[a |-> cm.past[r], idxs |-> CovReadIdx(lg.past, t)]>>
          ELSE <<>>)
    \o (IF cm.future # <<>>
          THEN <<[a |-> cm.future[r], idxs |-> CovReadIdx(lg.future, t)]>>
          ELSE <<>>)

\* row r of X = np.concatenate(np_X, axis=1)
FeatureRow(lg, sm, cm, preds, r, t) ==
    LET parts == FeatureParts(lg, sm, cm, preds, r, t)
    IN  Flatten([p \in DOMAIN parts |-> Gather(parts[p].a, parts[p].idxs)])

FeatureRowOk(lg, sm, cm, preds, r, t) ==
    LET parts == FeatureParts(lg, sm, cm, preds, r, t)
    IN  \A p \in DOMAIN parts : GatherOk(parts[p].a, parts[p].idxs)

\* self.model.predict(x): per feature row, one flat row with as many outputs as
\* the label matrix of the fit had columns
RegressorPredict(x, m) ==
    [r \in DOMAIN x |-> [j \in 1..m.n_outputs |-> Yhat(x[r], j - 1)]]

\* the regressor accepts x: it is fitted, on rows of this many features
RegressorAccepts(x, m) ==
    m.fitted /\ \A r \in DOMAIN x : Len(x[r]) = m.n_features

\* flat.reshape(k, L, -1): step-major, component-minor
ReshapeBlock(flat, L) ==
    [r \in DOMAIN flat |->
        LET w == Len(flat[r]) \div L
        IN  [s \in 1..L |-> [c \in 1..w |-> flat[r][(s - 1) * w + c]]]]

\* RegressionModel._predict_and_sample
PredictAndSample(x, L, m) == ReshapeBlock(RegressorPredict(x, m), L)

-----------------------------------------------------------------------------
(* RegressionModel.predict: after the loop *)

\* a slip: the concatenation is not cut to the first n steps
TruncatedNoCut(preds, rows, n) ==
    [r \in 1..rows |-> Flatten([k \in DOMAIN preds |-> preds[k][r]])]

\* np.concatenate(predictions, axis=1)[:, :n]
Truncated(preds, rows, n) ==
    [r \in 1..rows |-> Take(Flatten([k \in DOMAIN preds |-> preds[k][r]]), n)]

\* a.reshape(E, S, n, -1) of a 3-dimensional array a: the elements are taken in
\* row-major order, At(f) being the f-th of them (0-based)
Reshape4(a, E, S, n) ==
    LET n1 == Len(a[1])
        w1 == Len(a[1][1])
        w == (Len(a) * n1 * w1) \div (E * S * n)
        At(f) == a[(f \div (n1 * w1)) + 1][((f \div w1) % n1) + 1][(f % w1) + 1]
    IN  [e \in 1..E |-> [d \in 1..S |-> [h \in 1..n |-> [c \in 1..w |->
            At((((e - 1) * S + (d - 1)) * n + (h - 1)) * w + (c - 1))]]]]

\* np.moveaxis(a, 1, -1): [e][d][h][c] becomes [e][h][c][d]
MoveDrawsLast(a) ==
    [e \in DOMAIN a |-> [h \in DOMAIN a[e][1] |-> [c \in DOMAIN a[e][1][h] |->
        [d \in DOMAIN a[e] |-> a[e][d][h][c]]]]]

\* the array predict hands to the forecast series: [episode][step][component][draw]
ForecastArray(preds, E, S, n) ==
    MoveDrawsLast(Reshape4(Truncated(preds, Len(preds[1]), n), E, S, n))

-----------------------------------------------------------------------------
(* _LikelihoodMixin: the sampling strategies.  Probabilities (quantile levels *)
(* and uniform draws) are multiples of 1/Unit; the generator is a counter of  *)
(* the values drawn so far, and a draw is a function of the counter.          *)

Unit == 8

\* the i-th value (0-based) of self._rng.uniform(size=...), in units of 1/Unit
Uniform(state, i) == (3 * state + 2 * i) % Unit

\* one value of self._rng.normal(mu, sigma) / self._rng.poisson(lam)
NormalDraw(mu, sigma, state, i) ==
    [kind |-> "normal", mu |-> mu, sigma |-> sigma, u |-> Uniform(state, i)]
PoissonDraw(lam, state, i) == [kind |-> "poisson", lam |-> lam, u |-> Uniform(state, i)]

\* the regressor fitted for quantile level q (in units of 1/Unit)
WithLevel(m, q) ==
    [fitted |-> m.fitted, n_features |-> m.n_features, n_outputs |-> m.n_outputs,
     q |-> q]

\* fitted.predict(x) of the regressor of a quantile level
QuantilePredict(x, m) ==
    [r \in DOMAIN x |-> [j \in 1..m.n_outputs |->
        [kind |-> "yhat", x |-> x[r], j |-> j - 1, q |-> m.q]]]

\* the means and the deviations in self.model.predict(x) of a regressor with
\* the two-value loss
Means(x, m) ==
    [r \in DOMAIN x |-> [j \in 1..m.n_outputs |->
        [kind |-> "mu", x |-> x[r], j |-> j - 1]]]
Deviations(x, m) ==
    [r \in DOMAIN x |-> [j \in 1..m.n_outputs |->
        [kind |-> "sigma", x |-> x[r], j |-> j - 1]]]

\* n / d
Frac(n, d) == [kind |-> "frac", n |-> n, d |-> d]

\* left_value + weights * (right_value - left_value) for weights = wn / wd
Inter(left_value, right_value, wn, wd) ==
    IF left_value.kind = "num" /\ right_value.kind = "num"
      THEN Frac(left_value.v * wd + wn * (right_value.v - left_value.v), wd)
      ELSE [kind |-> "inter", left |-> left_value, right |-> right_value,
            wn |-> wn, wd |-> wd]

\* a slip: only the output of the last level is repeated
ShiftedOutputLastOnly(out) == out \o <<out[Len(out)], out[Len(out)]>>

\* np.repeat(model_output, repeat_count, axis=-1) for one (row, step, component)
ShiftedOutput(out) == <<out[1]>> \o out \o <<out[Len(out)]>>

\* [0.0] + self.quantiles + [1.0]
ExtQuantiles(quantiles) == <<0>> \o quantiles \o <<Unit>>

\* np.sum(p > tquantiles, axis=-1)
LeftIdx(u, quantiles) == Cardinality({j \in DOMAIN quantiles : u > quantiles[j]})

\* _quantile_sampling(model_output): model_output[r][s][c] is the sequence of
\* the outputs of the levels
QuantileSampling(model_output, quantiles, state) ==
    LET n_timesteps == Len(model_output[1])
        n_components == Len(model_output[1][1])
    IN  [r \in DOMAIN model_output |-> [s \in 1..n_timesteps |->
            [c \in 1..n_components |->
                LET u == Uniform(state, ((r - 1) * n_timesteps + (s - 1)) * n_components
                                            + (c - 1))
                    left_idx == LeftIdx(u, quantiles)
                    right_idx == left_idx + 1
                    shifted_output == ShiftedOutput(model_output[r][s][c])
                    left_q == ExtQuantiles(quantiles)[left_idx + 1]
                    right_q == ExtQuantiles(quantiles)[right_idx + 1]
                IN  Inter(shifted_output[left_idx + 1], shifted_output[right_idx + 1],
                          u - left_q, right_q - left_q)]]]

\* self._model_container[q]
ContainerAt(container, q) ==
    (CHOOSE i \in DOMAIN container : container[i].quantile = q)

\* self.quantiles
QuantilesOf(container) == [i \in DOMAIN container |-> container[i].quantile]

\* np.stack(model_outputs, axis=-1)
Stack(model_outputs) ==
    [r \in DOMAIN model_outputs[1] |-> [s \in DOMAIN model_outputs[1][r] |->
        [c \in DOMAIN model_outputs[1][r][s] |->
            [i \in DOMAIN model_outputs |-> model_outputs[i][r][s][c]]]]]

\* _predict_quantiles
PredictQuantiles(x, num_samples, L, container, state) ==
    IF num_samples = 1
      THEN ReshapeBlock(QuantilePredict(x, container[ContainerAt(container,
                                                        Unit \div 2)].regressor), L)
      ELSE QuantileSampling(
               Stack([i \in DOMAIN container |->
                        ReshapeBlock(QuantilePredict(x, container[i].regressor), L)]),
               QuantilesOf(container), state)

\* flat.reshape(A, B, -1) of a matrix: the elements in row-major order
Reshape3(flat, A, B) ==
    LET cols == Len(flat[1])
        w == (Len(flat) * cols) \div (A * B)
        At(f) == flat[(f \div cols) + 1][(f % cols) + 1]
    IN  [a \in 1..A |-> [b \in 1..B |-> [c \in 1..w |->
            At(((a - 1) * B + (b - 1)) * w + (c - 1))]]]

\* _normal_sampling: one call of self._rng.normal per output column
NormalSampling(mu, sigma, n_samples, chunk_len, state) ==
    LET k == Len(mu)
        samples_transposed ==
            [r \in 1..k |-> [i \in DOMAIN mu[r] |->
                NormalDraw(mu[r][i], sigma[r][i], state, (i - 1) * k + (r - 1))]]
    IN  Reshape3(samples_transposed, n_samples, chunk_len)

\* _predict_normal
PredictNormal(x, num_samples, L, m, state) ==
    IF num_samples = 1
      THEN ReshapeBlock(Means(x, m), L)
      ELSE NormalSampling(Means(x, m), Deviations(x, m), num_samples, L, state)

\* _poisson_sampling
PoissonSampling(model_output, state) ==
    LET n_timesteps == Len(model_output[1])
        n_components == Len(model_output[1][1])
    IN  [r \in DOMAIN model_output |-> [s \in 1..n_timesteps |->
            [c \in 1..n_components |->
                PoissonDraw(model_output[r][s][c], state,
                            ((r - 1) * n_timesteps + (s - 1)) * n_components + (c - 1))]]]

\* a slip: the rate is sampled also for a single sample
PredictPoissonAlways(x, num_samples, L, m, state) ==
    PoissonSampling(ReshapeBlock(RegressorPredict(x, m), L), state)

\* _predict_poisson
PredictPoisson(x, num_samples, L, m, state) ==
    IF num_samples = 1
      THEN ReshapeBlock(RegressorPredict(x, m), L)
      ELSE PoissonSampling(ReshapeBlock(RegressorPredict(x, m), L), state)

\* _predict_and_sample of a model with a likelihood: the strategy of the
\* likelihood, and RegressionModel._predict_and_sample without one
Strategy(lk, x, num_samples, L, m, container, state) ==
    CASE lk = "quantile" -> PredictQuantiles(x, num_samples, L, container, state)
      [] lk = "normal" -> PredictNormal(x, num_samples, L, m, state)
      [] lk = "poisson" -> PredictPoisson(x, num_samples, L, m, state)
      [] OTHER -> PredictAndSample(x, L, m)

\* the generator after the strategy has run on the k rows of x
RngAfter(lk, k, num_samples, m, state) ==
    IF lk \in {"quantile", "normal", "poisson"} /\ num_samples > 1
      THEN state + k * m.n_outputs
      ELSE state

\* a slip: the loop over the container leaves its first regressor in self.model
HandleAfterFirst(lk, num_samples, m, container) ==
    IF lk = "quantile" /\ num_samples > 1 /\ container # <<>>
      THEN container[1].regressor
      ELSE m

\* self.model after the strategy has run: the loop of _predict_quantiles
\* assigns every regressor of the container to it in turn
HandleAfter(lk, num_samples, m, container) ==
    IF lk = "quantile" /\ num_samples > 1 /\ container # <<>>
      THEN container[Len(container)].regressor
      ELSE m

-----------------------------------------------------------------------------
(* Actions: RegressionModel.predict *)

model_vars == <<lags, output_chunk_length, input_dim, model, probabilistic,
                training_series, covariate_series, tags, wrapped, likelihood,
                model_container>>
config_vars == <<lags, output_chunk_length, input_dim, probabilistic, training_series,
                 covariate_series, tags, wrapped, likelihood, model_container>>
aux_vars == <<rng, settings, encoder>>
loop_vars == <<covariate_matrices, series_matrix, predictions, X, t_pred>>

NoMatrices == [past |-> <<>>, future |-> <<>>]

\* predict() ends with an error before the loop: nothing was computed
Abort(args, err) ==
    /\ pc' = "idle"
    /\ call' = args
    /\ outcome' = err
    /\ covariate_matrices' = NoMatrices
    /\ series_matrix' = <<>>
    /\ predictions' = <<>>
    /\ X' = <<>>
    /\ t_pred' = 0
    /\ forecast' = <<>>
    /\ UNCHANGED <<model_vars, built, aux_vars>>

\* super().predict(n, series, past_covariates, future_covariates, num_samples):
\* the base class's part of predict raises nothing of its own
SuperPredict(n, series, past_covariates, future_covariates, num_samples) == "none"

\* an argument left None falls back on what fit stored
Resolve(given, stored) == IF given = <<>> THEN stored ELSE given

\* a slip: the component counts are compared before num_samples is looked at
FirstFailureDimsFirst(n, series, past_covariates, future_covariates, num_samples) ==
    IF series = <<>> /\ training_series = <<>> THEN "InputSeriesError"
    ELSE IF SuperPredict(n, series, past_covariates, future_covariates,
                         num_samples) # "none"
      THEN SuperPredict(n, series, past_covariates, future_covariates, num_samples)
    ELSE IF InputDim(Resolve(series, training_series),
                     Resolve(past_covariates, covariate_series.past),
                     Resolve(future_covariates, covariate_series.future)) # input_dim
      THEN "DimensionMismatch"
    ELSE IF ~probabilistic /\ num_samples > 1 THEN "ConfigError"
    ELSE IF \E g \in {"past", "future"} :
                LET covs == Resolve(IF g = "past" THEN past_covariates
                                    ELSE future_covariates, covariate_series[g])
                IN  /\ covs # <<>>
                    /\ Uncovered(Resolve(series, training_series), covs, lags[g], n,
                                 output_chunk_length) # {}
      THEN "CoverageError"
    ELSE "none"

\* the first check that fails, in the order predict makes them; "none" if all pass
FirstFailure(n, series, past_covariates, future_covariates, num_samples) ==
    IF ~probabilistic /\ num_samples > 1 THEN "ConfigError"
    ELSE IF series = <<>> /\ training_series = <<>> THEN "InputSeriesError"
    ELSE LET ser == Resolve(series, training_series)
             past == Resolve(past_covariates, covariate_series.past)
             future == Resolve(future_covariates, covariate_series.future)
         IN  IF SuperPredict(n, ser, past, future, num_samples) # "none"
               THEN SuperPredict(n, ser, past, future, num_samples)
             ELSE IF InputDim(ser, past, future) # input_dim
               THEN "DimensionMismatch"
             ELSE IF \/ /\ past # <<>>
                        /\ Uncovered(ser, past, lags.past, n,
                                     output_chunk_length) # {}
                     \/ /\ future # <<>>
                        /\ Uncovered(ser, future, lags.future, n,
                                     output_chunk_length) # {}
               THEN "CoverageError"
             ELSE "none"

\* predict(n, series, past_covariates, future_covariates, num_samples) up to the
\* loop.  A list of series is a sequence; <<>> stands for None.
PredictCall(n, series, past_covariates, future_covariates, num_samples) ==
    LET args == [op |-> "predict", n |-> n, series |-> series,
                 past_covariates |-> past_covariates,
                 future_covariates |-> future_covariates,
                 num_samples |-> num_samples,
                 passed |-> [past |-> past_covariates # <<>>,
                             future |-> future_covariates # <<>>]]
        err == FirstFailure(n, series, past_covariates, future_covariates, num_samples)
        ser == Resolve(series, training_series)
        past == Resolve(past_covariates, covariate_series.past)
        future == Resolve(future_covariates, covariate_series.future)
        L == output_chunk_length
    IN  /\ pc = "idle"
        /\ outcome = "none"
        /\ IF err # "none"
             THEN Abort(args, err)
             ELSE /\ pc' = "loop"
                  /\ call' = [args EXCEPT !.series = ser, !.past_covariates = past,
                                          !.future_covariates = future]
                  /\ outcome' = "running"
                  /\ covariate_matrices' =
                        [past |-> IF past # <<>>
                                    THEN Repeat(CovariateMatrix(ser, past,
                                                    lags.past, n, L), num_samples)
                                    ELSE <<>>,
                         future |-> IF future # <<>>
                                    THEN Repeat(CovariateMatrix(ser, future,
                                                    lags.future, n, L), num_samples)
                                    ELSE <<>>]
                  /\ series_matrix' = Repeat(SeriesMatrix(ser, lags.target), num_samples)
                  /\ predictions' = <<>>
                  /\ X' = <<>>
                  /\ t_pred' = 0
                  /\ forecast' = <<>>
                  /\ UNCHANGED <<model_vars, built, aux_vars>>

\* a slip: the loop advances by one step, not by one block
NextOffsetByStep == Len(predictions)

\* the offset of the next iteration of `for t_pred in range(0, n, L)`
NextOffset == Len(predictions) * output_chunk_length

Rows == Len(call.series) * call.num_samples

\* one iteration of the loop: assemble X, invoke the regressor, append the block
PredictIter ==
    /\ pc = "loop"
    /\ NextOffset < call.n
    /\ LET t == NextOffset
           ok == \A r \in 1..Rows :
                    FeatureRowOk(lags, series_matrix, covariate_matrices,
                                 predictions, r, t)
           x == [r \in 1..Rows |->
                    FeatureRow(lags, series_matrix, covariate_matrices,
                               predictions, r, t)]
       IN  IF ~ConcatOk(lags, series_matrix, predictions)
             THEN /\ pc' = "idle"
                  /\ outcome' = "ValueError"
                  /\ UNCHANGED <<X, t_pred, predictions, model, rng>>
           ELSE IF ~ok
             THEN /\ pc' = "idle"
                  /\ outcome' = "IndexError"
                  /\ UNCHANGED <<X, t_pred, predictions, model, rng>>
           ELSE IF ~RegressorAccepts(x, model)
             THEN /\ pc' = "idle"
                  /\ outcome' = "RegressorError"
                  /\ X' = x
                  /\ t_pred' = t
                  /\ UNCHANGED <<predictions, model, rng>>
           ELSE /\ X' = x
                /\ t_pred' = t
                /\ predictions' = Append(predictions,
                      Strategy(likelihood, x, call.num_samples, output_chunk_length,
                               model, model_container, rng))
                /\ rng' = RngAfter(likelihood, Len(x), call.num_samples, model, rng)
                /\ model' = HandleAfter(likelihood, call.num_samples, model,
                                        model_container)
                /\ UNCHANGED <<pc, outcome>>
    /\ UNCHANGED <<config_vars, call, covariate_matrices, series_matrix, forecast, built,
                   settings, encoder>>

\* the loop is over: truncate, reshape, return
PredictReturn ==
    /\ pc = "loop"
    /\ NextOffset >= call.n
    /\ forecast' = ForecastArray(predictions, Len(call.series), call.num_samples, call.n)
    /\ outcome' = "forecast"
    /\ pc' = "idle"
    /\ UNCHANGED <<model_vars, call, loop_vars, built, aux_vars>>

-----------------------------------------------------------------------------
(* Lag configurations a constructed model can hold *)

LagConfigs ==
    { [target |-> <<-2, -1>>, past |-> <<>>,       future |-> <<>>],
      [target |-> <<-3, -1>>, past |-> <<>>,       future |-> <<>>],
      [target |-> <<-1>>,     past |-> <<-2, -1>>, future |-> <<>>],
      [target |-> <<>>,       past |-> <<>>,       future |-> <<-1, 0, 1>>],
      [target |-> <<-2, -1>>, past |-> <<-1>>,     future |-> <<0, 1>>],
      [target |-> <<>>,       past |-> <<-2>>,     future |-> <<-1, 0>>] }

\* the signatures a successful fit can have recorded for a lag configuration
FittedDims(lg) ==
    { d \in [target : 1..MaxWidth, past : 0..MaxWidth, future : 0..MaxWidth] :
        /\ (d.past = NoWidth) <=> (lg.past = <<>>)
        /\ (d.future = NoWidth) <=> (lg.future = <<>>) }

\* the regressor after a successful fit with signature d
FittedOn(lg, L, d) ==
    [fitted |-> TRUE,
     n_features |-> Len(lg.target) * d.target + Len(lg.past) * d.past
                        + Len(lg.future) * d.future,
     n_outputs |-> L * d.target]

Unfitted == [fitted |-> FALSE, n_features |-> 0, n_outputs |-> 0]

\* the regressor after self.model.fit(training_samples, training_labels)
FittedRegressor(b) ==
    [fitted |-> TRUE, n_features |-> Len(b.X[1]), n_outputs |-> Len(b.y[1])]

\* the caller has taken the result of the call: its arguments and locals are gone
CallerResumes ==
    /\ pc = "idle"
    /\ outcome \notin {"none", "running"}
    /\ pc' = "idle"
    /\ call' = [op |-> "none"]
    /\ outcome' = "none"
    /\ covariate_matrices' = NoMatrices
    /\ series_matrix' = <<>>
    /\ predictions' = <<>>
    /\ X' = <<>>
    /\ t_pred' = 0
    /\ forecast' = <<>>
    /\ built' = [status |-> "none"]
    /\ UNCHANGED <<model_vars, aux_vars>>

-----------------------------------------------------------------------------
(* Specification of predict on a fitted model: calls of predict with every    *)
(* horizon, history and covariate coverage, one after another.                *)

\* How far a covariate series given to predict misses, at its start and at its
\* end, the window the call needs: -1 is one step more than needed.
Slacks == { [s |-> -1, e |-> -1], [s |-> 0, e |-> 0], [s |-> 1, e |-> 0], [s |-> 0, e |-> 1] }

\* E target series of `hist` steps, starting at time 0
TargetEpisodes(E, hist, w) == [e \in 1..E |-> MkSeries("target", e, 0, hist, w)]

\* covariates for those episodes; the slack applies to the last episode, the
\* others span exactly the needed window
CovEpisodes(g, group_lags, w, E, hist, n, L, slack) ==
    IF group_lags = <<>> THEN <<>>
    ELSE [e \in 1..E |->
            LET first == hist + group_lags[1] + (IF e = E THEN slack.s ELSE 0)
                last  == hist + ((n + L - 1) \div L - 1) * L + group_lags[Len(group_lags)]
                             - (IF e = E THEN slack.e ELSE 0)
            IN  MkSeries(g, e, first, last - first + 1, w)]

InitPredict ==
    /\ lags \in LagConfigs
    /\ output_chunk_length \in 1..MaxL
    /\ input_dim \in FittedDims(lags)
    /\ model = FittedOn(lags, output_chunk_length, input_dim)
    /\ probabilistic = FALSE
    /\ training_series = <<>>
    /\ covariate_series = NoMatrices
    /\ pc = "idle"
    /\ call = [op |-> "none"]
    /\ covariate_matrices = NoMatrices
    /\ series_matrix = <<>>
    /\ predictions = <<>>
    /\ X = <<>>
    /\ t_pred = 0
    /\ outcome = "none"
    /\ forecast = <<>>
    /\ built = [status |-> "none"]
    /\ tags = NoTags
    /\ wrapped = 0
    /\ likelihood = "none"
    /\ model_container = <<>>
    /\ rng = 0
    /\ settings = NoSettings
    /\ encoder = NoEncoder

PredictCovered ==
    /\ pc = "idle" /\ outcome = "none"
    /\ \E n \in 1..MaxN, E \in {1, MaxEpisodes}, hist \in (MaxHist - 1)..MaxHist,
          ps \in Slacks, fs \in Slacks :
        LET L == output_chunk_length
            past == CovEpisodes("past", lags.past, input_dim.past, E, hist, n, L, ps)
            fut  == CovEpisodes("future", lags.future, input_dim.future, E, hist, n, L, fs)
        IN  /\ \A e \in 1..E : past # <<>> => Len(past[e].vals) >= 1
            /\ \A e \in 1..E : fut # <<>> => Len(fut[e].vals) >= 1
            /\ PredictCall(n, TargetEpisodes(E, hist, input_dim.target), past, fut, 1)

NextPredict == PredictCovered \/ PredictIter \/ PredictReturn \/ CallerResumes

SpecPredict == InitPredict /\ [][NextPredict]_vars

-----------------------------------------------------------------------------
(* Specification of predict on a fitted model with a likelihood: calls with   *)
(* one and with several samples, from several states of the generator.        *)

MaxSamples == 2    \* largest num_samples
MaxSeed == 2       \* largest state of the generator before the first call

\* self.quantiles: the quarters
Levels == <<Unit \div 4, Unit \div 2, (3 * Unit) \div 4>>

\* self._model_container after the fit of a quantile model: one regressor per
\* level, in ascending order of the levels
QuantileContainer(m) ==
    [i \in DOMAIN Levels |-> [quantile |-> Levels[i], regressor |-> WithLevel(m, Levels[i])]]

\* self.model after the fit of a quantile model: the regressor fitted last,
\* which is the one of the highest level
HandleAfterFit(container) == container[Len(container)].regressor

SampleLagConfigs ==
    { [target |-> <<-2, -1>>, past |-> <<>>, future |-> <<>>],
      [target |-> <<-1>>,     past |-> <<>>, future |-> <<0>>] }

InitSample ==
    /\ lags \in SampleLagConfigs
    /\ output_chunk_length \in {1, MaxL}
    /\ input_dim \in {d \in FittedDims(lags) : d.target \in {1, MaxWidth} /\ d.future <= 1}
    /\ likelihood \in {"quantile", "normal", "poisson"}
    /\ model_container = IF likelihood = "quantile"
                           THEN QuantileContainer(FittedOn(lags, output_chunk_length,
                                                           input_dim))
                           ELSE <<>>
    /\ model = IF likelihood = "quantile"
                 THEN HandleAfterFit(model_container)
                 ELSE FittedOn(lags, output_chunk_length, input_dim)
    /\ probabilistic = TRUE
    /\ tags = IF likelihood = "normal" THEN NativeUncertainty ELSE NoTags
    /\ wrapped = IF input_dim.target > 1 \/ output_chunk_length > 1 THEN 1 ELSE 0
    /\ rng \in 0..MaxSeed
    /\ training_series = <<>>
    /\ covariate_series = NoMatrices
    /\ pc = "idle"
    /\ call = [op |-> "none"]
    /\ covariate_matrices = NoMatrices
    /\ series_matrix = <<>>
    /\ predictions = <<>>
    /\ X = <<>>
    /\ t_pred = 0
    /\ outcome = "none"
    /\ forecast = <<>>
    /\ built = [status |-> "none"]
    /\ settings = NoSettings
    /\ encoder = NoEncoder

\* predict(n, series, future_covariates, num_samples) with covariates that
\* cover the horizon
PredictSampled ==
    /\ pc = "idle" /\ outcome = "none"
    /\ rng <= MaxSeed
    /\ \E n \in 1..MaxN, E \in {1, MaxEpisodes}, num_samples \in {1, MaxSamples} :
        /\ PredictCall(n, TargetEpisodes(E, MaxHist, input_dim.target), <<>>,
                       CovEpisodes("future", lags.future, input_dim.future, E, MaxHist,
                                   n, output_chunk_length, [s |-> 0, e |-> 0]),
                       num_samples)

NextSample == PredictSampled \/ PredictIter \/ PredictReturn \/ CallerResumes

SpecSample == InitSample /\ [][NextSample]_vars

-----------------------------------------------------------------------------
(* Specification of _quantile_sampling as a function: every array of numeric  *)
(* outputs below, from every state of the generator.                          *)

MaxOut == 2        \* largest output of a quantile regressor

\* model_output of shape (1, 1, 2, n_quantiles): per component the outputs of
\* the levels, in any order of size
ModelOutputs ==
    { <<<<cells>>>> : cells \in [1..2 -> [DOMAIN Levels -> {Num(v) : v \in 0..MaxOut}]] }

InitQuantile ==
    /\ lags = [target |-> <<-1>>, past |-> <<>>, future |-> <<>>]
    /\ output_chunk_length = 1
    /\ input_dim = [target |-> MaxWidth, past |-> NoWidth, future |-> NoWidth]
    /\ likelihood = "quantile"
    /\ model_container = QuantileContainer(FittedOn(lags, output_chunk_length, input_dim))
    /\ model = HandleAfterFit(model_container)
    /\ probabilistic = TRUE
    /\ tags = NoTags
    /\ wrapped = 1
    /\ rng \in 0..(Unit - 1)
    /\ call \in {[op |-> "quantile_sampling", model_output |-> a, state |-> rng] :
                    a \in ModelOutputs}
    /\ training_series = <<>>
    /\ covariate_series = NoMatrices
    /\ pc = "sampling"
    /\ covariate_matrices = NoMatrices
    /\ series_matrix = <<>>
    /\ predictions = <<>>
    /\ X = <<>>
    /\ t_pred = 0
    /\ outcome = "none"
    /\ forecast = <<>>
    /\ built = [status |-> "none"]
    /\ settings = NoSettings
    /\ encoder = NoEncoder

\* self._quantile_sampling(model_output)
QuantileSample ==
    /\ pc = "sampling"
    /\ predictions' = <<QuantileSampling(call.model_output, QuantilesOf(model_container),
                                         rng)>>
    /\ rng' = rng + Len(call.model_output) * Len(call.model_output[1])
                        * Len(call.model_output[1][1])
    /\ outcome' = "sampled"
    /\ pc' = "idle"
    /\ UNCHANGED <<model_vars, call, covariate_matrices, series_matrix, X, t_pred,
                   forecast, built, settings, encoder>>

NextQuantile == QuantileSample

SpecQuantile == InitQuantile /\ [][NextQuantile]_vars

-----------------------------------------------------------------------------
(* Specification of the builder: _create_lagged_data applied to the episodes  *)
(* a fit can hand it (a covariate series for exactly the groups with lags).   *)

BuildLagConfigs ==
    LagConfigs \cup { [target |-> LagsFromCount(k), past |-> <<>>, future |-> <<>>] :
                        k \in 1..MaxLagCount }

\* where a covariate series starts and ends, relative to the target's start and end
Spans == { [s |-> 0, e |-> 0], [s |-> -1, e |-> 2], [s |-> 1, e |-> 0], [s |-> 0, e |-> -1] }

\* the series with the value of component 1 at time t missing
WithNaN(ts, t) ==
    [ts EXCEPT !.vals = [i \in DOMAIN ts.vals |->
        IF ts.start + i - 1 = t THEN [ts.vals[i] EXCEPT ![1] = NaN] ELSE ts.vals[i]]]

\* E episodes of len target steps from time 0; the span and the missing value
\* (of group hole.g at time hole.t) apply to the last episode.  The covariates
\* are as wide as the target is narrow (BuildParams).
BuildEpisodes(g, present, E, len, w, span, hole) ==
    IF ~present THEN <<>>
    ELSE [e \in 1..E |->
            LET first == IF e = E /\ g # "target" THEN span.s ELSE 0
                last  == len - 1 + (IF e = E /\ g # "target" THEN span.e ELSE 0)
                ts == MkSeries(g, e, first, last - first + 1, w)
            IN  IF e = E /\ hole.g = g THEN WithNaN(ts, hole.t) ELSE ts]

\* a missing value: none, or one in a series of the call
Holes(lg) ==
    {[g |-> "none", t |-> 0]}
        \cup {[g |-> g, t |-> t] :
                g \in {"target"} \cup {h \in {"past", "future"} : lg[h] # <<>>},
                t \in 0..(MaxTrain - 1)}

BuildParams(lg) ==
    { p \in [E : {1, MaxEpisodes}, len : 1..MaxTrain, wt : 1..MaxWidth, wc : 1..MaxWidth,
             span : Spans, hole : Holes(lg), cap : {NoCap, 1, MaxCap}] :
        /\ p.wc = MaxWidth + 1 - p.wt
        /\ p.len + p.span.e - p.span.s >= 1
        /\ p.hole.t < p.len }

BuildArgs(lg) ==
    { [op |-> "build",
       target_series |->
            BuildEpisodes("target", TRUE, p.E, p.len, p.wt, p.span, p.hole),
       past_covariates |->
            BuildEpisodes("past", lg.past # <<>>, p.E, p.len, p.wc, p.span, p.hole),
       future_covariates |->
            BuildEpisodes("future", lg.future # <<>>, p.E, p.len, p.wc, p.span, p.hole),
       max_samples_per_ts |-> p.cap] : p \in BuildParams(lg) }

\* the worked example: `lags=2`, output_chunk_length 1, one univariate series
\* of the values 0, 1, 2, ...
ScenarioSeries == [start |-> 0, vals |-> [i \in 1..ScenarioLen |-> <<Num(i - 1)>>]]

ScenarioArgs ==
    [op |-> "build", target_series |-> <<ScenarioSeries>>, past_covariates |-> <<>>,
     future_covariates |-> <<>>, max_samples_per_ts |-> NoCap]

InitBuild ==
    /\ \/ /\ lags \in BuildLagConfigs
          /\ output_chunk_length \in 1..MaxL
          /\ call \in BuildArgs(lags)
       \/ /\ lags = [target |-> LagsFromCount(2), past |-> <<>>, future |-> <<>>]
          /\ output_chunk_length = 1
          /\ call = ScenarioArgs
    /\ input_dim = NoneDim
    /\ model = Unfitted
    /\ probabilistic = FALSE
    /\ training_series = <<>>
    /\ covariate_series = NoMatrices
    /\ pc = "build"
    /\ covariate_matrices = NoMatrices
    /\ series_matrix = <<>>
    /\ predictions = <<>>
    /\ X = <<>>
    /\ t_pred = 0
    /\ outcome = "none"
    /\ forecast = <<>>
    /\ built = [status |-> "none"]
    /\ tags = NoTags
    /\ wrapped = 0
    /\ likelihood = "none"
    /\ model_container = <<>>
    /\ rng = 0
    /\ settings = NoSettings
    /\ encoder = NoEncoder

\* _create_lagged_data(target_series, past_covariates, future_covariates,
\*                     max_samples_per_ts)
Build ==
    /\ pc = "build"
    /\ built' = CreateLaggedData(lags, output_chunk_length, call.target_series,
                                 call.past_covariates, call.future_covariates,
                                 call.max_samples_per_ts)
    /\ outcome' = built'.status
    /\ pc' = "idle"
    /\ UNCHANGED <<model_vars, call, loop_vars, forecast, aux_vars>>

\* _fit_model(target_series, past_covariates, future_covariates,
\*            max_samples_per_ts): the builder, then the regressor's fit
FitModel ==
    /\ pc = "build"
    /\ built' = CreateLaggedData(lags, output_chunk_length, call.target_series,
                                 call.past_covariates, call.future_covariates,
                                 call.max_samples_per_ts)
    /\ IF built'.status = "ok"
         THEN /\ model' = FittedRegressor(built')
              /\ outcome' = "fitted"
         ELSE /\ outcome' = built'.status
              /\ UNCHANGED model
    /\ pc' = "idle"
    /\ UNCHANGED <<lags, output_chunk_length, input_dim, probabilistic, training_series,
                   covariate_series, call, loop_vars, forecast, tags, wrapped,
                   likelihood, model_container, aux_vars>>

NextBuild == Build \/ FitModel

SpecBuild == InitBuild /\ [][NextBuild]_vars

-----------------------------------------------------------------------------
(* Specification of the model's life: constructed, then any sequence of fit   *)
(* and predict calls, with series of every width, with and without            *)
(* covariates, with and without a series argument.                            *)

\* which covariates a call of fit is given: those the lags ask for, none, both
Presences == {"as_lags", "none", "both"}

\* how far past the target's end the covariates given to fit reach
CovTails == {1, MaxN + 1}

FitParams ==
    [E : {1, MaxEpisodes}, len : {1, MaxTrain}, wt : {1, MaxWidth},
     presence : Presences, tail : CovTails]

\* the covariates of group g in a call of fit: from the target's start to
\* `tail` steps past its end, as wide as the target is narrow
FitCovariates(g, p) ==
    IF \/ p.presence = "none"
       \/ p.presence = "as_lags" /\ lags[g] = <<>>
      THEN <<>>
      ELSE [e \in 1..p.E |-> MkSeries(g, e, 0, p.len + p.tail, MaxWidth + 1 - p.wt)]

FitArgs(p) ==
    [op |-> "fit",
     series |-> [e \in 1..p.E |-> MkSeries("target", e, 0, p.len, p.wt)],
     past_covariates |-> FitCovariates("past", p),
     future_covariates |-> FitCovariates("future", p),
     max_samples_per_ts |-> NoCap]

\* fit()'s check of the covariates given against the lags of the constructor
PresenceOk(past_covariates, future_covariates) ==
    /\ (past_covariates # <<>>) <=> (lags.past # <<>>)
    /\ (future_covariates # <<>>) <=> (lags.future # <<>>)

\* a slip: a regressor that declares multi-output support is never wrapped
WrapsNativeNever(series, L, tg, w) ==
    IF Width(series[1]) > 1 \/ L > 1
      THEN IF w = 0
             THEN IF ~tg.multioutput THEN TRUE ELSE FALSE
             ELSE FALSE
      ELSE FALSE

\* fit() puts self.model into a MultiOutputRegressor; w is the number of
\* MultiOutputRegressor layers self.model has already
Wraps(series, L, tg, w) ==
    IF Width(series[1]) > 1 \/ L > 1
      THEN IF w = 0
             THEN IF ~tg.multioutput THEN TRUE
                  ELSE IF tg.uncertainty THEN TRUE ELSE FALSE
             ELSE FALSE
      ELSE FALSE

\* fit(series, past_covariates, future_covariates)
Fit ==
    /\ pc = "idle" /\ outcome = "none"
    /\ \E p \in FitParams : call' = FitArgs(p)
    /\ IF ~PresenceOk(call'.past_covariates, call'.future_covariates)
         THEN /\ outcome' = "ConfigError"
              /\ UNCHANGED <<input_dim, training_series, covariate_series, model, built,
                             wrapped>>
         ELSE /\ input_dim' = InputDim(call'.series, call'.past_covariates,
                                       call'.future_covariates)
              /\ wrapped' = IF Wraps(call'.series, output_chunk_length, tags, wrapped)
                              THEN wrapped + 1 ELSE wrapped
              /\ IF Len(call'.series) = 1
                   THEN /\ training_series' = call'.series
                        /\ covariate_series' = [past |-> call'.past_covariates,
                                                future |-> call'.future_covariates]
                   ELSE UNCHANGED <<training_series, covariate_series>>
              /\ built' = CreateLaggedData(lags, output_chunk_length, call'.series,
                                           call'.past_covariates,
                                           call'.future_covariates,
                                           call'.max_samples_per_ts)
              /\ IF built'.status = "ok"
                   THEN /\ model' = FittedRegressor(built')
                        /\ outcome' = "fitted"
                   ELSE /\ outcome' = built'.status
                        /\ model' = IF wrapped' # wrapped THEN Unfitted ELSE model
    /\ pc' = "idle"
    /\ UNCHANGED <<lags, output_chunk_length, probabilistic, loop_vars, forecast, tags,
                   likelihood, model_container, aux_vars>>

\* the widths of the covariates a call of predict is given (NoWidth: None)
CovOptions == {NoWidth, 1, MaxWidth}

\* the series argument of a call of predict: None, or E series of w components
SeriesOptions == {[E |-> 0, w |-> 1]} \cup [E : {1, MaxEpisodes}, w : {1, MaxWidth}]

\* covariates of w components given to predict for the (resolved) series ser,
\* reaching as far as the call needs
GivenCovariates(g, w, ser, n) ==
    IF w = NoWidth THEN <<>>
    ELSE LET E == Max({1, Len(ser)})
             gl == IF lags[g] = <<>> THEN <<-1>> ELSE lags[g]
             L == output_chunk_length
         IN  [e \in 1..E |->
                LET hist == IF ser = <<>> THEN MaxHist ELSE EndTime(ser[e]) + 1
                    first == hist + gl[1]
                    last  == hist + (CeilDiv(n, L) - 1) * L + gl[Len(gl)]
                IN  MkSeries(g, e, first, last - first + 1, w)]

PredictAny ==
    /\ pc = "idle" /\ outcome = "none"
    /\ \E n \in {1, MaxN}, num_samples \in 1..2, so \in SeriesOptions,
          pw \in CovOptions, fw \in CovOptions :
        LET series == IF so.E = 0 THEN <<>> ELSE TargetEpisodes(so.E, MaxHist, so.w)
            ser == Resolve(series, training_series)
            past == GivenCovariates("past", pw, ser, n)
            future == GivenCovariates("future", fw, ser, n)
        IN  \* the callers give, or have stored, one covariate series per series
            /\ \A covs \in {Resolve(past, covariate_series.past),
                              Resolve(future, covariate_series.future)} :
                    covs # <<>> /\ ser # <<>> => Len(covs) = Len(ser)
            /\ PredictCall(n, series, past, future, num_samples)

\* the lag configurations of the models followed through their life
LifeLagConfigs ==
    { lg \in LagConfigs : lg.target # <<>> /\ (lg.future # <<>> => lg.past # <<>>) }

Init ==
    /\ lags \in LifeLagConfigs
    /\ output_chunk_length \in 1..MaxL
    /\ input_dim = NoneDim
    /\ model = Unfitted
    /\ probabilistic = FALSE
    /\ training_series = <<>>
    /\ covariate_series = NoMatrices
    /\ pc = "idle"
    /\ call = [op |-> "none"]
    /\ covariate_matrices = NoMatrices
    /\ series_matrix = <<>>
    /\ predictions = <<>>
    /\ X = <<>>
    /\ t_pred = 0
    /\ outcome = "none"
    /\ forecast = <<>>
    /\ built = [status |-> "none"]
    /\ tags = NoTags
    /\ wrapped = 0
    /\ likelihood = "none"
    /\ model_container = <<>>
    /\ rng = 0
    /\ settings = NoSettings
    /\ encoder = NoEncoder

Next == Fit \/ PredictAny \/ PredictIter \/ PredictReturn \/ CallerResumes

Spec == Init /\ [][Next]_vars

-----------------------------------------------------------------------------
(* Specification of repeated fits: a model of either output_chunk_length     *)
(* around a regressor of each kind is fitted again and again.                *)

InitFit ==
    /\ lags = [target |-> <<-1>>, past |-> <<>>, future |-> <<>>]
    /\ output_chunk_length \in {1, MaxL}
    /\ tags \in {NoTags, Native, NativeUncertainty}
    /\ input_dim = NoneDim
    /\ model = Unfitted
    /\ probabilistic = FALSE
    /\ training_series = <<>>
    /\ covariate_series = NoMatrices
    /\ pc = "idle"
    /\ call = [op |-> "none"]
    /\ covariate_matrices = NoMatrices
    /\ series_matrix = <<>>
    /\ predictions = <<>>
    /\ X = <<>>
    /\ t_pred = 0
    /\ outcome = "none"
    /\ forecast = <<>>
    /\ built = [status |-> "none"]
    /\ wrapped = 0
    /\ likelihood = "none"
    /\ model_container = <<>>
    /\ rng = 0
    /\ settings = NoSettings
    /\ encoder = NoEncoder

NextFit == Fit \/ CallerResumes

SpecFit == InitFit /\ [][NextFit]_vars

-----------------------------------------------------------------------------
(* Properties of predict *)

\* the episode (1-based) that row r of the replicated arrays belongs to
EpisodeOf(r) == ((r - 1) \div call.num_samples) + 1

\* the regressor has been invoked in the call in progress or just ended
Invoked == call.op = "predict" /\ predictions # <<>>

\* what the model generated for row r at forecast step p (0-based), component c
Generated(r, p, c) ==
    predictions[(p \div output_chunk_length) + 1][r][(p % output_chunk_length) + 1][c]

\* the first column (0-based) of each group in a feature row
TargetCol == 0
PastCol == Len(lags.target) * input_dim.target
FutureCol == PastCol + Len(lags.past) * input_dim.past

\* C1: a forecast that predict returns has one entry per episode, each of
\* exactly n steps, and step h of it is step h of the concatenation of the
\* generated blocks in generation order, for every horizon n and chunk length L.
C1_ExactHorizon ==
    outcome = "forecast" =>
        /\ Len(forecast) = Len(call.series)
        /\ \A e \in DOMAIN forecast :
            /\ Len(forecast[e]) = call.n
            /\ \A h \in 1..call.n :
                /\ Len(forecast[e][h]) = input_dim.target
                /\ \A c \in 1..input_dim.target, d \in 1..call.num_samples :
                    forecast[e][h][c][d]
                        = Generated((e - 1) * call.num_samples + d, h - 1, c)

\* a forecast of n = L + 1 steps for two episodes: the last block overshoots
C1_Witness ==
    /\ outcome = "forecast"
    /\ output_chunk_length > 1
    /\ call.n = output_chunk_length + 1
    /\ Len(call.series) = 2

\* C2: in the iteration at offset t_pred the feature of target lag g is the
\* historical target value at position t_pred + g relative to the first
\* prediction step when t_pred + g < 0, and the prediction generated for forecast
\* step t_pred + g otherwise.
C2_AutoregressiveFeedback ==
    (Invoked /\ lags.target # <<>>) =>
        \A r \in 1..Rows, i \in DOMAIN lags.target, c \in 1..input_dim.target :
            LET p == t_pred + lags.target[i]
                ts == call.series[EpisodeOf(r)]
            IN  X[r][TargetCol + (i - 1) * input_dim.target + c] =
                    IF p < 0 THEN ts.vals[Len(ts.vals) + p + 1][c]
                    ELSE Generated(r, p, c)

\* an iteration that reads one lag from the history and one from the predictions
C2_Witness ==
    /\ Invoked
    /\ lags.target = <<-3, -1>>
    /\ t_pred = 2
    /\ X # <<>>

\* The episode from which the builder would make the training row of the step
\* being predicted: the target continued by the predictions made before this
\* iteration and by the (unknown) value of the step itself, and covariates
\* reaching over that step.
RefTarget(r) ==
    LET ts == call.series[EpisodeOf(r)]
    IN  [start |-> ts.start,
         vals  |-> ts.vals
                    \o Take(Flatten([k \in DOMAIN predictions |-> predictions[k][r]]),
                            t_pred)
                    \o <<NaNRow(input_dim.target)>>]

RefCov(g, covs, r) ==
    IF covs = <<>> THEN <<>>
    ELSE LET e == EpisodeOf(r)
             T == FirstPredTs(call.series[e]) + t_pred
             lo == Min({StartTime(covs[e]), StartTime(call.series[e])})
             hi == Max({EndTime(covs[e]), T + lags[g][Len(lags[g])], T})
         IN  <<MkSeries(g, e, lo, hi - lo + 1, Width(covs[e]))>>

\* the (group, lag, component) triples in the documented column order
Layout ==
    Flatten([gi \in 1..3 |->
        LET g == <<"target", "past", "future">>[gi]
        IN  Flatten([i \in DOMAIN lags[g] |->
                [c \in 1..input_dim[g] |-> [g |-> g, lag |-> lags[g][i], c |-> c]]])])

\* the value a triple denotes for row r at the step being predicted
Denoted(tr, r) ==
    LET e == EpisodeOf(r)
        first == FirstPredTs(call.series[e])
        t == first + t_pred + tr.lag
    IN  IF tr.g = "target" /\ t >= first
          THEN Generated(r, t - first, tr.c)
          ELSE Obs(tr.g, e, t, tr.c)

\* C3: in every iteration, column j of the feature row predict assembles holds
\* what column j of the builder's training row for the same step holds, and
\* both are the j-th (group, lag, component) triple in the order target, past,
\* future, stored lag order, component order.
C3_OrderStability ==
    Invoked =>
        \A r \in 1..Rows :
            LET e == EpisodeOf(r)
                T == FirstPredTs(call.series[e]) + t_pred
                train == EpisodeX(lags, <<RefTarget(r)>>,
                                  RefCov("past", call.past_covariates, r),
                                  RefCov("future", call.future_covariates, r), 1)[T]
                denoted == [j \in DOMAIN Layout |-> Denoted(Layout[j], r)]
            IN  X[r] = denoted /\ train = denoted

\* a later iteration of a model with all three groups and two components each
C3_Witness ==
    /\ Invoked
    /\ t_pred > 0
    /\ lags.target # <<>> /\ lags.past # <<>> /\ lags.future # <<>>
    /\ input_dim = [target |-> 2, past |-> 2, future |-> 2]

\* the number of regressor invocations, stated without the division
Invocations(n, L) == CHOOSE k \in 1..n : k * L >= n /\ (k - 1) * L < n

\* a covariate series of the call misses the window of its group
Insufficient(g, covs) ==
    /\ covs # <<>>
    /\ \E idx \in DOMAIN call.series :
        LET first == EndTime(call.series[idx]) + 1
            L == output_chunk_length
        IN  \/ StartTime(covs[idx]) > first + lags[g][1]
            \/ EndTime(covs[idx]) <
                 first + (Invocations(call.n, L) - 1) * L + lags[g][Len(lags[g])]

\* C4: a call that reaches the coverage check ends with the insufficient-
\* covariate error exactly when some covariate series of a group present starts
\* after (first prediction step + lag[0]) or ends before
\* (first prediction step + (ceil(n/L) - 1) * L + lag[-1]).
C4_CoverageCheck ==
    (/\ call.op = "predict"
     /\ outcome \notin {"ConfigError", "InputSeriesError", "DimensionMismatch"}) =>
        (outcome = "CoverageError"
            <=> \/ Insufficient("past", call.past_covariates)
                \/ Insufficient("future", call.future_covariates))

\* future lags {-1, 0, 1}, n = 3, L = 1: a covariate that starts one step before
\* the first prediction but ends at the last prediction time is rejected
C4_Witness ==
    /\ call.op = "predict"
    /\ outcome = "CoverageError"
    /\ lags.future = <<-1, 0, 1>> /\ lags.past = <<>>
    /\ call.n = 3 /\ output_chunk_length = 1
    /\ Len(call.series) = 1
    /\ StartTime(call.future_covariates[1]) = EndTime(call.series[1]) + 1 - 1
    /\ EndTime(call.future_covariates[1]) = EndTime(call.series[1]) + 3

\* the features of group g in X[r] are the window values at positions pos[i]
ReadsAt(g, col, r, pos) ==
    \A i \in DOMAIN lags[g], c \in 1..input_dim[g] :
        X[r][col + (i - 1) * input_dim[g] + c]
            = covariate_matrices[g][r][pos[i] + 1][c]

\* C5 as stated: the past-covariate features are read at the same positions in
\* every iteration, and only the future-covariate features at positions offset
\* by t_pred.
C5_PastFixed ==
    Invoked =>
        \A r \in 1..Rows :
            /\ covariate_matrices.past # <<>> =>
                ReadsAt("past", PastCol, r,
                        [i \in DOMAIN lags.past |-> lags.past[i] - lags.past[1]])
            /\ covariate_matrices.future # <<>> =>
                ReadsAt("future", FutureCol, r,
                        [i \in DOMAIN lags.future |->
                            lags.future[i] - lags.future[1] + t_pred])

\* C5 amended: in every iteration the past-covariate and the future-covariate
\* features are both read from their windows at positions offset by t_pred,
\* position (lag - lag[0]) + t_pred.
C5_BothOffset ==
    Invoked =>
        \A r \in 1..Rows :
            /\ covariate_matrices.past # <<>> =>
                ReadsAt("past", PastCol, r,
                        [i \in DOMAIN lags.past |->
                            lags.past[i] - lags.past[1] + t_pred])
            /\ covariate_matrices.future # <<>> =>
                ReadsAt("future", FutureCol, r,
                        [i \in DOMAIN lags.future |->
                            lags.future[i] - lags.future[1] + t_pred])

\* a later iteration of a model with past and future covariates
C5_Witness ==
    /\ Invoked
    /\ t_pred > 0
    /\ X # <<>>
    /\ covariate_matrices.past # <<>>
    /\ covariate_matrices.future # <<>>

-----------------------------------------------------------------------------
(* Properties of the model's life *)

\* the series and covariates a call of predict works on, after the fallbacks
ResolvedSeries == Resolve(call.series, training_series)
ResolvedPast == Resolve(call.past_covariates, covariate_series.past)
ResolvedFuture == Resolve(call.future_covariates, covariate_series.future)

CountOf(list) == IF list = <<>> THEN NoWidth ELSE Len(list[1].vals[1])

\* the component counts of the series given to the call, counted off the series
ComponentCounts ==
    [target |-> CountOf(ResolvedSeries), past |-> CountOf(ResolvedPast),
     future |-> CountOf(ResolvedFuture)]

\* a fit has recorded a signature
SignatureRecorded == input_dim # NoneDim

CountsMatch == SignatureRecorded /\ ComponentCounts = input_dim

\* the call ended before anything was computed
NothingComputed ==
    /\ pc = "idle"
    /\ covariate_matrices = NoMatrices /\ series_matrix = <<>>
    /\ X = <<>> /\ predictions = <<>> /\ forecast = <<>>

\* C6: after any sequence of fit and predict calls, a call of predict gets to
\* the regressor, and returns a forecast, only if a fit has recorded a signature
\* and the component counts (target, past, future) of the series given to the
\* call equal it; a call that passes the checks made before (num_samples, a
\* series to work on) and has no signature to match, or counts that differ,
\* ends with the dimension-mismatch error and nothing computed.
C6_DimensionCheck ==
    call.op = "predict" =>
        /\ (pc = "loop" \/ outcome = "forecast" \/ X # <<>> \/ predictions # <<>>)
                => CountsMatch
        /\ (/\ pc = "idle" /\ outcome # "none"
            /\ probabilistic \/ call.num_samples = 1
            /\ ResolvedSeries # <<>>
            /\ ~CountsMatch) =>
                outcome = "DimensionMismatch" /\ NothingComputed

\* fitted with past covariates, then predict with wider past covariates
C6_Witness ==
    /\ call.op = "predict" /\ model.fitted
    /\ call.past_covariates # <<>> /\ input_dim.past # NoWidth
    /\ ComponentCounts.past > input_dim.past
    /\ ComponentCounts.target = input_dim.target
    /\ ComponentCounts.future = input_dim.future
    /\ outcome = "DimensionMismatch"

-----------------------------------------------------------------------------
(* Properties of the builder *)

Built == call.op = "build" /\ pc = "idle"

\* the value of component c of ts at time t; missing when ts has no time t
ValueAt(ts, t, c) ==
    IF t \in StartTime(ts)..EndTime(ts) THEN ts.vals[t - ts.start + 1][c] ELSE NaN

\* the values of all components of ts at time t
RowAt(ts, t) == [c \in 1..Width(ts) |-> ValueAt(ts, t, c)]

\* the group's series of episode e, <<>> when the group has no lags
GroupSeries(g, e) ==
    IF lags[g] = <<>> THEN <<>>
    ELSE IF g = "target" THEN call.target_series[e]
    ELSE IF g = "past" THEN call.past_covariates[e]
    ELSE call.future_covariates[e]

\* the features and the labels of time step t of episode e, read off the series
FeaturesAt(e, t) ==
    Flatten([gi \in 1..3 |->
        LET g == <<"target", "past", "future">>[gi]
        IN  Flatten([i \in DOMAIN lags[g] |-> RowAt(GroupSeries(g, e), t + lags[g][i])])])

LabelsAt(e, t) ==
    Flatten([s \in 1..output_chunk_length |-> RowAt(call.target_series[e], t + s - 1)])

\* the time steps of episode e at which every feature and every label value
\* exists and is not missing
UsableSteps(e) ==
    {t \in StartTime(call.target_series[e])..EndTime(call.target_series[e]) :
        ~HasNaN(FeaturesAt(e, t)) /\ ~HasNaN(LabelsAt(e, t))}

\* C8: for one episode and no cap, the rows the builder keeps are exactly the
\* time steps at which every feature value and every label value exists and is
\* not missing, in chronological order (and the builder fails when there is no
\* such step); a NaN-free univariate target of N values with the k lags
\* -k..-1 and no covariates gives N - k - L + 1 rows.
C8_UsableRows ==
    (/\ Built
     /\ Len(call.target_series) = 1
     /\ call.max_samples_per_ts = NoCap) =>
        LET steps == SortedSeq(UsableSteps(1))
        IN  /\ IF steps = <<>>
                 THEN built.status = "DataInsufficiency"
                 ELSE /\ built.status = "ok"
                      /\ Len(built.X) = Len(steps)
                      /\ \A i \in DOMAIN steps :
                            /\ built.X[i] = FeaturesAt(1, steps[i])
                            /\ built.y[i] = LabelsAt(1, steps[i])
            /\ (/\ lags.past = <<>> /\ lags.future = <<>>
                /\ lags.target = LagsFromCount(Len(lags.target))
                /\ Width(call.target_series[1]) = 1
                /\ ~\E i \in DOMAIN call.target_series[1].vals :
                        HasNaN(call.target_series[1].vals[i])
                /\ built.status = "ok") =>
                    Len(built.X) = Len(call.target_series[1].vals) - Len(lags.target)
                                        - output_chunk_length + 1

\* the builder has run on the worked example
ScenarioBuilt == Built /\ call = ScenarioArgs /\ Len(lags.target) = 2

\* C9 as stated: the feature row for time index t = 2, 3, ... of the worked
\* example is [v[t-1], v[t-2]].
C9_OneStepBackFirst ==
    ScenarioBuilt =>
        /\ built.status = "ok"
        /\ \A i \in DOMAIN built.X :
            built.X[i] = <<Num((i + 1) - 1), Num((i + 1) - 2)>>

\* C9 amended: the worked example gives one row per time index t = 2, 3, ...,
\* and the feature row for t is [v[t-2], v[t-1]]: column 0 holds the value two
\* steps back and column 1 the value one step back (ascending lag).
C9_AscendingLag ==
    ScenarioBuilt =>
        /\ built.status = "ok"
        /\ Len(built.X) = ScenarioLen - 2
        /\ \A i \in DOMAIN built.X :
            /\ built.X[i] = <<Num((i + 1) - 2), Num((i + 1) - 1)>>
            /\ built.y[i] = <<Num(i + 1)>>

C9_Witness == ScenarioBuilt /\ built.status = "ok" /\ Len(built.X) > 1

\* the width of the group's series in the call (0 when the group has no lags)
GroupWidth(g) == IF lags[g] = <<>> THEN 0 ELSE Width(GroupSeries(g, 1))

\* C10: whenever the builder succeeds, X has (target lags x target width) +
\* (past lags x past width) + (future lags x future width) columns and Y has
\* output_chunk_length x target width columns.
C10_ColumnCounts ==
    (Built /\ built.status = "ok") =>
        /\ Len(built.X) = Len(built.y)
        /\ \A i \in DOMAIN built.X :
            /\ Len(built.X[i]) = Len(lags.target) * GroupWidth("target")
                                    + Len(lags.past) * GroupWidth("past")
                                    + Len(lags.future) * GroupWidth("future")
            /\ Len(built.y[i]) = output_chunk_length * Width(call.target_series[1])

\* several episodes, all three groups, a target of several components
C10_Witness ==
    /\ Built /\ built.status = "ok"
    /\ lags.target # <<>> /\ lags.past # <<>> /\ lags.future # <<>>
    /\ Len(call.target_series) = MaxEpisodes
    /\ Width(call.target_series[1]) > 1
    /\ output_chunk_length > 1

\* the rows of episode idx that survive dropna, before the cap
UncappedRows(idx) ==
    EpisodeRows(lags, output_chunk_length, call.target_series, call.past_covariates,
                call.future_covariates, NoCap, idx)

\* the last c elements of a sequence that has more than c
Newest(rows, c) == [i \in 1..c |-> rows[Len(rows) - c + i]]

\* what the cap leaves of the rows of episode idx
CappedRows(idx) ==
    LET rows == UncappedRows(idx)
        c == call.max_samples_per_ts
    IN  IF c # NoCap /\ Len(rows) > c THEN Newest(rows, c) ELSE rows

\* C11: from every episode the builder keeps the c chronologically last rows
\* that survive the dropping, in chronological order, when a cap c is set and
\* more than c rows survive; otherwise it keeps all of them.
C11_CapKeepsNewest ==
    (Built /\ built.status = "ok") =>
        LET kept == Flatten([idx \in DOMAIN call.target_series |-> CappedRows(idx)])
        IN  /\ Len(built.X) = Len(kept)
            /\ \A i \in DOMAIN kept : built.X[i] \o built.y[i] = kept[i]

\* a cap that cuts: some episode has more surviving rows than the cap
C11_Witness ==
    /\ Built /\ built.status = "ok"
    /\ call.max_samples_per_ts # NoCap
    /\ \E idx \in DOMAIN call.target_series :
            Len(UncappedRows(idx)) > call.max_samples_per_ts
    /\ \E idx \in DOMAIN call.target_series :
            Len(UncappedRows(idx)) <= call.max_samples_per_ts

\* the episodes of the call with no row left after the dropping
EmptyEpisodes == {idx \in DOMAIN call.target_series : UncappedRows(idx) = <<>>}

\* C12: when some episode has no row left after the rows with missing values
\* are dropped, the builder ends with the data-insufficiency error, which names
\* the (0-based) index of the first such episode when several episodes were
\* given and no index for a single one; no X/Y is returned and the regressor is
\* not fitted.
C12_DataInsufficiency ==
    (Built /\ EmptyEpisodes # {}) =>
        /\ built.status = "DataInsufficiency"
        /\ outcome = "DataInsufficiency"
        /\ built.X = <<>> /\ built.y = <<>>
        /\ built.idx = (IF Len(call.target_series) > 1
                          THEN Min(EmptyEpisodes) - 1 ELSE NoIndex)
        /\ model = Unfitted

\* a single episode without rows
C12_Witness ==
    /\ Built /\ EmptyEpisodes # {}
    /\ Len(call.target_series) = 1
    /\ built.status = "DataInsufficiency"

-----------------------------------------------------------------------------
(* RegressionModel.__init__ and _model_encoder_settings.  An argument of the  *)
(* constructor is a record with its Python type and its value; the elements   *)
(* of a list or tuple are integers.                                           *)

NoLength == 0      \* self.output_chunk_length = None

NoneArg == [type |-> "none"]
IntArg(k) == [type |-> "int", k |-> k]
ListArg(v) == [type |-> "list", v |-> v]
TupleArg(v) == [type |-> "tuple", v |-> v]
BoolArg == [type |-> "bool"]
FloatArg == [type |-> "float"]

RECURSIVE InsertSorted(_, _)
\* x put into the ascending sequence s, before the first element not below it
InsertSorted(x, s) ==
    IF s = <<>> THEN <<x>>
    ELSE IF x <= Head(s) THEN <<x>> \o s
    ELSE <<Head(s)>> \o InsertSorted(x, Tail(s))

RECURSIVE Sorted(_)
\* sorted(s): the elements of s in ascending order, each as often as in s
Sorted(s) == IF s = <<>> THEN <<>> ELSE InsertSorted(Head(s), Sorted(Tail(s)))

\* a slip: the end of the range is included
RangeInclusive(a, b) == [i \in 1..(b - a + 1) |-> a + i - 1]

\* list(range(a, b))
Range(a, b) == [i \in 1..(b - a) |-> a + i - 1]

Rejected == [ok |-> FALSE]
Group(v) == [ok |-> TRUE, v |-> v]

\* the type checks of `lags` and `lags_past_covariates`
LagsTypeOk(a) == a.type \in {"none", "int", "list"}

\* the type checks of `lags_future_covariates`
FutureTypeOk(a) ==
    /\ a.type \in {"none", "tuple", "list"}
    /\ a.type = "tuple" => Len(a.v) = 2

\* a slip: a count of zero is accepted
TargetLagsLenient(a) ==
    CASE a.type = "int" ->
            IF a.k >= 0 THEN Group(LagsFromCount(a.k)) ELSE Rejected
      [] a.type = "list" ->
            IF \E i \in DOMAIN a.v : a.v[i] >= 0 THEN Rejected ELSE Group(Sorted(a.v))
      [] OTHER -> Group(<<>>)

\* self.lags["target"] from `lags`; an absent group is the empty sequence
TargetLags(a) ==
    CASE a.type = "int" ->
            IF a.k > 0 THEN Group(LagsFromCount(a.k)) ELSE Rejected
      [] a.type = "list" ->
            IF \E i \in DOMAIN a.v : a.v[i] >= 0 THEN Rejected ELSE Group(Sorted(a.v))
      [] OTHER -> Group(<<>>)

\* self.lags["past"] from `lags_past_covariates`
PastLags(a) ==
    CASE a.type = "int" ->
            IF a.k > 0 THEN Group(LagsFromCount(a.k)) ELSE Rejected
      [] a.type = "list" ->
            IF \E i \in DOMAIN a.v : a.v[i] >= 0 THEN Rejected ELSE Group(Sorted(a.v))
      [] OTHER -> Group(<<>>)

\* self.lags["future"] from `lags_future_covariates`
FutureLags(a) ==
    CASE a.type = "tuple" ->
            IF a.v[1] >= 0 /\ a.v[2] >= 0
              THEN Group(IF a.v[1] = 0 /\ a.v[2] = 0 THEN <<>>
                         ELSE Range(-a.v[1], a.v[2]))
              ELSE Rejected
      [] a.type = "list" -> Group(Sorted(a.v))
      [] OTHER -> Group(<<>>)

\* isinstance(output_chunk_length, int) and output_chunk_length > 0
ChunkLengthOk(a) == a.type = "int" /\ a.k > 0

\* the constructor in the order of its checks
Constructed(a) ==
    IF a.lags = NoneArg /\ a.lags_future_covariates = NoneArg
            /\ a.lags_past_covariates = NoneArg
        THEN Rejected
    ELSE IF ~LagsTypeOk(a.lags) \/ ~LagsTypeOk(a.lags_past_covariates)
        THEN Rejected
    ELSE IF ~FutureTypeOk(a.lags_future_covariates)
        THEN Rejected
    ELSE IF ~TargetLags(a.lags).ok
        THEN Rejected
    ELSE IF ~PastLags(a.lags_past_covariates).ok
        THEN Rejected
    ELSE IF ~FutureLags(a.lags_future_covariates).ok
        THEN Rejected
    ELSE IF ~ChunkLengthOk(a.output_chunk_length)
        THEN Rejected
    ELSE [ok |-> TRUE,
          lags |-> [target |-> TargetLags(a.lags).v,
                    past |-> PastLags(a.lags_past_covariates).v,
                    future |-> FutureLags(a.lags_future_covariates).v],
          output_chunk_length |-> a.output_chunk_length.k]

\* RegressionModel(lags, lags_past_covariates, lags_future_covariates,
\* output_chunk_length): a model, or a ValueError and no model
Construct ==
    /\ pc = "new"
    /\ IF Constructed(call).ok
         THEN /\ lags' = Constructed(call).lags
              /\ output_chunk_length' = Constructed(call).output_chunk_length
              /\ pc' = "idle"
              /\ outcome' = "constructed"
         ELSE /\ pc' = "rejected"
              /\ outcome' = "ValueError"
              /\ UNCHANGED <<lags, output_chunk_length>>
    /\ UNCHANGED <<input_dim, model, probabilistic, training_series, covariate_series,
                   tags, wrapped, likelihood, model_container, call, loop_vars,
                   forecast, built, aux_vars>>

ToSet(s) == {s[i] : i \in DOMAIN s}

\* a slip: the steps ahead counted without the step of lag 0
ModelEncoderSettingsInclusive(lg) ==
    LET lags_covariates == ToSet(lg.past) \cup ToSet(lg.future)
    IN  IF lags_covariates # {}
          THEN [asked |-> TRUE,
                n_steps_back_inclusive |-> -Min({Min(lags_covariates), 0}),
                n_steps_ahead_exclusive |-> Max({Max(lags_covariates), 0}),
                takes_past_covariates |-> lg.past # <<>>,
                takes_future_covariates |-> lg.future # <<>>]
          ELSE [asked |-> TRUE,
                n_steps_back_inclusive |-> 0,
                n_steps_ahead_exclusive |-> 0,
                takes_past_covariates |-> FALSE,
                takes_future_covariates |-> FALSE]

\* the property _model_encoder_settings
ModelEncoderSettings(lg) ==
    LET lags_covariates == ToSet(lg.past) \cup ToSet(lg.future)
    IN  IF lags_covariates # {}
          THEN [asked |-> TRUE,
                n_steps_back_inclusive |-> -Min({Min(lags_covariates), 0}),
                n_steps_ahead_exclusive |-> Max({Max(lags_covariates), 0}) + 1,
                takes_past_covariates |-> lg.past # <<>>,
                takes_future_covariates |-> lg.future # <<>>]
          ELSE [asked |-> TRUE,
                n_steps_back_inclusive |-> 0,
                n_steps_ahead_exclusive |-> 0,
                takes_past_covariates |-> FALSE,
                takes_future_covariates |-> FALSE]

\* a collaborator reads model._model_encoder_settings
EncoderSettings ==
    /\ pc = "idle"
    /\ outcome = "constructed"
    /\ settings' = ModelEncoderSettings(lags)
    /\ UNCHANGED <<model_vars, call, loop_vars, pc, outcome, forecast, built, rng,
                   encoder>>

\* a slip: the horizon is passed on as it is
GetEncodersNPlain(lg, n) == n

\* _get_encoders_n(n)
GetEncodersN(lg, n) ==
    LET n_steps_ahead == ModelEncoderSettings(lg).n_steps_ahead_exclusive
        takes_future_covariates == ModelEncoderSettings(lg).takes_future_covariates
    IN  IF ~takes_future_covariates
          THEN n
          ELSE n + (n_steps_ahead - 1)

\* a slip: the labels of a row are left out of the count
MinTrainSeriesLengthLagsOnly ==
    Max({3, IF lags.target # <<>> THEN -lags.target[1] ELSE output_chunk_length})

\* min_train_series_length
MinTrainSeriesLength ==
    Max({3, IF lags.target # <<>>
              THEN -lags.target[1] + output_chunk_length
              ELSE output_chunk_length})

\* a collaborator asks the model for the steps the encoders have to generate
EncodersN ==
    /\ pc = "idle"
    /\ outcome = "constructed"
    /\ \E n \in 1..MaxN :
        encoder' = [kind |-> "steps", n |-> n, steps |-> GetEncodersN(lags, n)]
    /\ UNCHANGED <<model_vars, call, loop_vars, pc, outcome, forecast, built, rng,
                   settings>>

-----------------------------------------------------------------------------
(* Specification of construction: every combination of the arguments below,  *)
(* then the encoder settings of the models that were constructed.            *)

LagValues == {-MaxLagCount, -1, 0}
Counts == {-1, 0, 1, MaxLagCount}
ShortLists(S) == {<<>>} \cup {<<a>> : a \in S} \cup {<<a, b>> : a, b \in S}

LagsArgs ==
    {NoneArg, BoolArg, FloatArg} \cup {IntArg(k) : k \in Counts}
        \cup {ListArg(l) : l \in ShortLists(LagValues)}

FutureArgs ==
    {NoneArg, FloatArg, TupleArg(<<1>>)}
        \cup {TupleArg(<<p, f>>) : p, f \in Counts}
        \cup {ListArg(l) : l \in ShortLists({-1, 0, 1})}

ChunkArgs == {FloatArg} \cup {IntArg(k) : k \in {-1, 0, 1, MaxL}}

CtorArgs ==
    [op : {"init"}, lags : LagsArgs, lags_past_covariates : LagsArgs,
     lags_future_covariates : FutureArgs, output_chunk_length : ChunkArgs]

InitCtor ==
    /\ call \in CtorArgs
    /\ lags = [target |-> <<>>, past |-> <<>>, future |-> <<>>]
    /\ output_chunk_length = NoLength
    /\ input_dim = NoneDim
    /\ model = Unfitted
    /\ probabilistic = FALSE
    /\ training_series = <<>>
    /\ covariate_series = NoMatrices
    /\ pc = "new"
    /\ covariate_matrices = NoMatrices
    /\ series_matrix = <<>>
    /\ predictions = <<>>
    /\ X = <<>>
    /\ t_pred = 0
    /\ outcome = "none"
    /\ forecast = <<>>
    /\ built = [status |-> "none"]
    /\ tags = NoTags
    /\ wrapped = 0
    /\ likelihood = "none"
    /\ model_container = <<>>
    /\ rng = 0
    /\ settings = NoSettings
    /\ encoder = NoEncoder

NextCtor == Construct \/ EncoderSettings \/ EncodersN

SpecCtor == InitCtor /\ [][NextCtor]_vars

\* a model was constructed from the arguments in `call`
IsConstructed == call.op = "init" /\ pc = "idle"
\* the constructor raised
IsRejected == call.op = "init" /\ pc = "rejected"

\* the integers a..b in ascending order, written out
Ascending(s) == \A i \in 1..(Len(s) - 1) : s[i] < s[i + 1]
Contiguous(s, first, last) ==
    /\ Len(s) = last - first + 1
    /\ \A i \in DOMAIN s : s[i] = first + i - 1

\* C13: an integer count k > 0 for target or past lags gives the list
\* -k, ..., -1; a future pair (p, f) of non-negative integers gives -p, ..., f-1;
\* the pair (0, 0) gives no future group.
C13_CountStyleRanges ==
    IsConstructed =>
        /\ call.lags.type = "int" =>
                Contiguous(lags.target, -call.lags.k, -1)
        /\ call.lags_past_covariates.type = "int" =>
                Contiguous(lags.past, -call.lags_past_covariates.k, -1)
        /\ call.lags_future_covariates.type = "tuple" =>
                LET p == call.lags_future_covariates.v[1]
                    f == call.lags_future_covariates.v[2]
                IN  /\ Contiguous(lags.future, -p, f - 1)
                    /\ (p = 0 /\ f = 0) => lags.future = <<>>

\* counts for target and past and a pair that reaches both ways
C13_Witness ==
    /\ IsConstructed
    /\ call.lags = IntArg(MaxLagCount)
    /\ call.lags_past_covariates = IntArg(1)
    /\ call.lags_future_covariates = TupleArg(<<1, MaxLagCount>>)
    /\ lags.future = Range(-1, MaxLagCount)

\* C14: an explicit list of target or past lags is stored with its duplicates
\* collapsed and in ascending order; so in every constructed model the offsets
\* of each lag group are unique and ascending.
C14_UniqueSorted ==
    IsConstructed =>
        /\ call.lags.type = "list" =>
                lags.target = SortedSeq(ToSet(call.lags.v))
        /\ call.lags_past_covariates.type = "list" =>
                lags.past = SortedSeq(ToSet(call.lags_past_covariates.v))
        /\ Ascending(lags.target) /\ Ascending(lags.past) /\ Ascending(lags.future)

\* the part of C14 that the constructor keeps: every group is in ascending
\* order, an offset given twice being stored twice
C14_SortedOnly ==
    IsConstructed =>
        \A g \in {"target", "past", "future"} :
            \A i \in 1..(Len(lags[g]) - 1) : lags[g][i] <= lags[g][i + 1]

\* an integer count that is not positive
BadCount(a) == a.type = "int" /\ a.k <= 0
\* a list with an offset that is not negative
BadList(a) == a.type = "list" /\ \E i \in DOMAIN a.v : a.v[i] >= 0
\* a pair with a negative entry
BadPair(a) == a.type = "tuple" /\ Len(a.v) = 2 /\ (a.v[1] < 0 \/ a.v[2] < 0)

\* the arguments in `call` are one of the cases C15 lists
ListedCase ==
    \/ /\ call.lags = NoneArg
       /\ call.lags_past_covariates = NoneArg
       /\ call.lags_future_covariates = NoneArg
    \/ BadCount(call.lags) \/ BadCount(call.lags_past_covariates)
    \/ BadList(call.lags) \/ BadList(call.lags_past_covariates)
    \/ BadPair(call.lags_future_covariates)
    \/ call.output_chunk_length.type # "int"
    \/ call.output_chunk_length.k <= 0

\* C15: the constructor ends with an error and leaves no model when all three
\* lag arguments are absent, when the target or past count is <= 0, when a
\* target or past list holds a value >= 0, when the future pair has a negative
\* entry, or when output_chunk_length is not a positive integer.
C15_Rejections ==
    (call.op = "init" /\ pc # "new" /\ ListedCase) =>
        /\ pc = "rejected"
        /\ outcome = "ValueError"
        /\ settings = NoSettings

\* rejected for nothing but a zero count; nothing but a zero output_chunk_length
C15_Witness ==
    /\ IsRejected
    /\ \/ /\ call.lags = IntArg(0)
          /\ call.lags_past_covariates = NoneArg
          /\ call.lags_future_covariates = NoneArg
          /\ call.output_chunk_length = IntArg(1)
       \/ /\ call.lags = IntArg(1)
          /\ call.lags_past_covariates = ListArg(<<-1>>)
          /\ call.lags_future_covariates = TupleArg(<<0, 1>>)
          /\ call.output_chunk_length = IntArg(0)

\* the covariate lags of the constructed model
CovariateLags == ToSet(lags.past) \cup ToSet(lags.future)

\* C16: with at least one covariate lag the encoder settings are
\* n_steps_back_inclusive = abs(min(m, 0)) and n_steps_ahead_exclusive =
\* max(M, 0) + 1 for the least and greatest covariate lag m and M, i.e. the
\* least b >= 0 with every lag >= -b and the least a >= 1 with every lag < a,
\* and the two flags tell whether the past / future group is present; with no
\* covariate lag the settings are (0, 0, FALSE, FALSE).
C16_EncoderSettings ==
    (IsConstructed /\ settings.asked) =>
        IF CovariateLags # {}
          THEN LET m == Min(CovariateLags)
                   M == Max(CovariateLags)
                   back == settings.n_steps_back_inclusive
                   ahead == settings.n_steps_ahead_exclusive
               IN  /\ back = (IF m < 0 THEN -m ELSE 0)
                   /\ ahead = (IF M > 0 THEN M ELSE 0) + 1
                   /\ back >= 0 /\ \A l \in CovariateLags : l >= -back
                   /\ back > 0 => \E l \in CovariateLags : l = -back
                   /\ ahead >= 1 /\ \A l \in CovariateLags : l < ahead
                   /\ ahead > 1 => \E l \in CovariateLags : l = ahead - 1
                   /\ settings.takes_past_covariates = (lags.past # <<>>)
                   /\ settings.takes_future_covariates = (lags.future # <<>>)
          ELSE /\ settings.n_steps_back_inclusive = 0
               /\ settings.n_steps_ahead_exclusive = 0
               /\ ~settings.takes_past_covariates
               /\ ~settings.takes_future_covariates

\* past and future lags on both sides of zero
C16_Witness ==
    /\ IsConstructed /\ settings.asked
    /\ lags.past # <<>> /\ lags.future # <<>>
    /\ Min(CovariateLags) = -MaxLagCount
    /\ Max(CovariateLags) = 1
    /\ settings.n_steps_ahead_exclusive = 2

\* the labels of the fit whose arguments are in `call` have several columns
SeveralColumns(c, L) == Width(c.series[1]) > 1 \/ L > 1

\* C17: a fit that gets past its covariate check puts the regressor into the
\* per-column ensemble exactly when the labels have several columns (target
\* width > 1 or output_chunk_length > 1), the regressor is not in one already,
\* and the regressor either declares no native multi-output support or is in
\* the two-value loss mode; in every other case the fit leaves the regressor
\* as it is, so there is never more than one layer.
C17_WrapExactlyWhen ==
    [][(pc = "idle" /\ outcome = "none" /\ call'.op = "fit"
            /\ outcome' # "ConfigError") =>
        /\ (wrapped' = wrapped + 1) <=>
                /\ SeveralColumns(call', output_chunk_length)
                /\ wrapped = 0
                /\ ~tags.multioutput \/ tags.uncertainty
        /\ (wrapped' # wrapped + 1) => wrapped' = wrapped
        /\ wrapped' <= 1]_vars

\* a regressor in the two-value loss mode, wrapped by an earlier fit, after a
\* later fit on a single-column label
C17_Witness ==
    /\ call.op = "fit" /\ outcome = "fitted"
    /\ tags = NativeUncertainty
    /\ wrapped = 1
    /\ ~SeveralColumns(call, output_chunk_length)

\* the point estimate of a strategy for output column j (0-based) of feature
\* row x: the output of the regressor of level 1/2, the mean, the rate
PointValue(lk, x, j) ==
    CASE lk = "quantile" -> [kind |-> "yhat", x |-> x, j |-> j, q |-> Unit \div 2]
      [] lk = "normal" -> [kind |-> "mu", x |-> x, j |-> j]
      [] lk = "poisson" -> Yhat(x, j)

\* predict has just run a strategy for a call with num_samples = 1
OneSampleStep ==
    /\ pc = "loop"
    /\ likelihood # "none"
    /\ call.num_samples = 1
    /\ Len(predictions') = Len(predictions) + 1

\* C18: with num_samples = 1 the block a strategy returns holds, for every
\* row, step and component, the point estimate of the strategy; the block is
\* the same from every state of the generator, and the generator is in the
\* same state after the strategy as before.
C18_PointEstimates ==
    [][OneSampleStep =>
        LET block == predictions'[Len(predictions')]
            w == model.n_outputs \div output_chunk_length
        IN  /\ rng' = rng
            /\ Len(block) = Len(X')
            /\ \A r \in DOMAIN block :
                    block[r] = [st \in 1..output_chunk_length |-> [c \in 1..w |->
                        PointValue(likelihood, X'[r], (st - 1) * w + (c - 1))]]
            /\ \A state \in 0..(Unit - 1) :
                    Strategy(likelihood, X', 1, output_chunk_length, model,
                             model_container, state) = block]_vars

\* a forecast of one sample from a Gaussian model whose generator is not in
\* its first state
C18_Witness ==
    /\ call.op = "predict" /\ outcome = "forecast"
    /\ call.num_samples = 1
    /\ likelihood = "normal"
    /\ rng = MaxSeed
    /\ Len(predictions) > 1

\* _quantile_sampling has returned
Sampled == call.op = "quantile_sampling" /\ outcome = "sampled"

\* the draw of component c, the only row and step being the first
DrawOf(c) == Uniform(call.state, c - 1)

\* the levels with the virtual levels 0 and 1
LevelSet == {0, Unit} \cup {Levels[j] : j \in DOMAIN Levels}

\* the nearest level below the draw u (0 for the draw 0) and the nearest at or
\* above it
LevelBelow(u) == Max({e \in LevelSet : e < u} \cup {0})
LevelAbove(u) == Min({e \in LevelSet : e >= u /\ e > LevelBelow(u)})

\* the output that stands for level e among the outputs `out` of a component:
\* the virtual levels reuse the output of the nearest real level
OutputAt(out, e) ==
    IF e = 0 THEN out[1].v
    ELSE IF e = Unit THEN out[Len(out)].v
    ELSE out[CHOOSE j \in DOMAIN Levels : Levels[j] = e].v

\* C19: for every draw u and every component, the value _quantile_sampling
\* returns is lo + (u - ql) / (qh - ql) * (hi - lo), where ql and qh are the
\* levels that bracket u in the list extended by 0 and 1 and lo and hi are the
\* outputs of these levels (the virtual levels reusing the nearest real one);
\* so it lies between the smallest and the largest output of the component.
C19_Interpolation ==
    Sampled =>
        \A c \in DOMAIN call.model_output[1][1] :
            LET out == call.model_output[1][1][c]
                u == DrawOf(c)
                ql == LevelBelow(u)
                qh == LevelAbove(u)
                lo == OutputAt(out, ql)
                hi == OutputAt(out, qh)
                v == predictions[1][1][1][c]
                outs == {out[j].v : j \in DOMAIN out}
            IN  /\ v.kind = "frac" /\ v.d > 0
                /\ v.n * (qh - ql) = v.d * (lo * (qh - ql) + (u - ql) * (hi - lo))
                /\ Min(outs) * v.d <= v.n
                /\ v.n <= Max(outs) * v.d

\* a draw above the highest level where the outputs of the levels cross, and a
\* draw strictly between two levels whose outputs differ
C19_Witness ==
    /\ Sampled
    /\ \E c \in DOMAIN call.model_output[1][1] :
            /\ DrawOf(c) > Levels[Len(Levels)]
            /\ call.model_output[1][1][c][1].v > call.model_output[1][1][c][Len(Levels)].v
    /\ \E c \in DOMAIN call.model_output[1][1] :
            /\ DrawOf(c) \notin LevelSet
            /\ DrawOf(c) > Levels[1] /\ DrawOf(c) < Levels[Len(Levels)]
            /\ OutputAt(call.model_output[1][1][c], LevelBelow(DrawOf(c)))
                    # OutputAt(call.model_output[1][1][c], LevelAbove(DrawOf(c)))

\* the state of the model that predict is to leave alone
kept_vars == <<lags, output_chunk_length, input_dim, model, model_container>>

FitAborts ==
    /\ pc = "idle" /\ outcome = "none"
    /\ call'.op = "fit"
    /\ outcome' # "fitted"

\* C21: a fit that ends with an error (a covariate given without lags or lags
\* without the covariate, or no usable training row) leaves the recorded
\* component counts and the wrapping of the regressor as they were before the
\* call.
C21_AbortedFitLeavesNothing ==
    [][FitAborts => (input_dim' = input_dim /\ wrapped' = wrapped)]_vars

\* what the aborted fits do keep: the one that fails the covariate check
C21_ConfigErrorLeavesNothing ==
    [][(FitAborts /\ outcome' = "ConfigError") =>
            (input_dim' = input_dim /\ wrapped' = wrapped /\ model' = model)]_vars

\* the model went through a fit that accepted its covariates: a group of
\* covariates was present at that fit exactly if the model has lags for it
PresentAtFit(g) == lags[g] # <<>>

\* a call of predict on a fitted model has got past its checks
PredictProceeds == outcome \in {"running", "forecast"}

\* predict was given covariates of a group that the fit had not
GivenButAbsentAtFit(g) ==
    /\ call.op = "predict" /\ SignatureRecorded
    /\ call.passed[g] /\ ~PresentAtFit(g)

\* predict was given no covariates of a group that the fit had
MissingButPresentAtFit(g) ==
    /\ call.op = "predict" /\ SignatureRecorded
    /\ ~call.passed[g] /\ PresentAtFit(g)

\* C22 as stated: a call of predict whose covariates are present where the
\* fit had none, or absent where the fit had some, for the past or the future
\* group, ends with an error and returns no forecast.
C22_PresenceMismatchAborts ==
    \A g \in {"past", "future"} :
        (GivenButAbsentAtFit(g) \/ MissingButPresentAtFit(g)) =>
            (~PredictProceeds /\ forecast = <<>>)

\* C22, amended: covariates given to predict where the fit had none end the
\* call with an error and no forecast; covariates left out where the fit had
\* some end it so when the model has none stored to fall back on (the fit was
\* on a list of series).
C22_PresenceMismatchWithoutFallback ==
    \A g \in {"past", "future"} :
        (\/ GivenButAbsentAtFit(g)
         \/ (MissingButPresentAtFit(g) /\ covariate_series[g] = <<>>)) =>
            (~PredictProceeds /\ forecast = <<>>)

\* both cases in one call: the past covariates of the fit were left out with
\* none stored, future covariates were given that the fit had not, and the
\* call ended with the dimension mismatch
C22_Witness ==
    /\ MissingButPresentAtFit("past") /\ covariate_series.past = <<>>
    /\ GivenButAbsentAtFit("future")
    /\ outcome = "DimensionMismatch"

\* the feature rows a value of a block was computed from
RECURSIVE SourceRows(_)
SourceRows(v) ==
    CASE v.kind \in {"yhat", "mu", "sigma"} -> {v.x}
      [] v.kind = "normal" -> SourceRows(v.mu) \cup SourceRows(v.sigma)
      [] v.kind = "poisson" -> SourceRows(v.lam)
      [] v.kind = "inter" -> SourceRows(v.left) \cup SourceRows(v.right)
      [] OTHER -> {}

\* a block of E * S rows, output_chunk_length steps and as many components as
\* the target
WellShaped(block) ==
    /\ Len(block) = Rows
    /\ \A r \in DOMAIN block :
        /\ Len(block[r]) = output_chunk_length
        /\ \A s \in DOMAIN block[r] : Len(block[r][s]) = input_dim.target

\* X holds the feature rows the newest block was computed from
NewestBlockOfX ==
    /\ call.op = "predict" /\ predictions # <<>>
    /\ t_pred = (Len(predictions) - 1) * output_chunk_length

\* row r of the block is computed from feature row r, and from no other
RowsAligned(block) ==
    /\ Len(block) = Len(X)
    /\ \A r \in DOMAIN block : \A s \in DOMAIN block[r] : \A c \in DOMAIN block[r][s] :
            SourceRows(block[r][s][c]) = {X[r]}

\* several samples are drawn, for several series, by the Gaussian strategy
GaussianOnSeveralSeries ==
    /\ likelihood = "normal"
    /\ call.num_samples > 1
    /\ Len(call.series) > 1

\* C23: in every iteration of predict, whatever the strategy, for E >= 1 series
\* and S >= 1 samples, the block the strategy returns has E * S rows,
\* output_chunk_length steps and as many components as the target, and its
\* row r is the prediction for feature row r.
C23_BlockShape ==
    NewestBlockOfX =>
        /\ \A k \in DOMAIN predictions : WellShaped(predictions[k])
        /\ RowsAligned(predictions[Len(predictions)])

\* what holds of the blocks: the same, the Gaussian strategy drawing several
\* samples for several series apart
C23_BlockShapeButGaussian ==
    (NewestBlockOfX /\ ~GaussianOnSeveralSeries) =>
        /\ \A k \in DOMAIN predictions : WellShaped(predictions[k])
        /\ RowsAligned(predictions[Len(predictions)])

\* the Gaussian strategy has returned a block of S rows for E * S feature rows,
\* and predict has made a forecast of it
C23_MisshapenForecast ==
    /\ NewestBlockOfX /\ GaussianOnSeveralSeries
    /\ Len(predictions[1]) = call.num_samples
    /\ Len(X) = Rows
    /\ outcome = "forecast"

-----------------------------------------------------------------------------
(* The encoders of covariates, as test_encoders.py exercises them: each of    *)
(* the single encoders and of the sequential encoders of the tests is asked   *)
(* to encode for training and for inference, in any order.                    *)

MaxEncodeCalls == 2   \* calls of encode_train that are counted

\* EncoderTestCase.encoders_cls
EncodersCls ==
    { "FutureCallableIndexEncoder", "FutureCyclicEncoder",
      "FutureDatetimeAttributeEncoder", "FutureIntegerIndexEncoder",
      "PastCallableIndexEncoder", "PastCyclicEncoder",
      "PastDatetimeAttributeEncoder", "PastIntegerIndexEncoder" }

\* issubclass(enc_cls, IntegerIndexEncoder)
IntegerIndexEncoders == {"FutureIntegerIndexEncoder", "PastIntegerIndexEncoder"}

\* requires_fit of test_single_encoders_general, per encoder class
RequiresFitSingle(enc_cls) ==
    IF enc_cls \in {"FutureCyclicEncoder", "PastCyclicEncoder"} THEN FALSE
    ELSE IF enc_cls \in {"FutureDatetimeAttributeEncoder",
                         "PastDatetimeAttributeEncoder"} THEN FALSE
    ELSE IF enc_cls \in IntegerIndexEncoders THEN TRUE
    ELSE FALSE

\* the keys of add_encoders in test_sequential_encoder_general
AddEncoders == {"cyclic", "datetime_attribute", "position", "custom", "transformer"}

\* the add_encoders the test makes sequential encoders of: all the keys, and
\* the keys without the transformer, the position encoders, or both
SequentialConfigs ==
    { AddEncoders, AddEncoders \ {"transformer"}, AddEncoders \ {"position"},
      AddEncoders \ {"position", "transformer"} }

\* a slip: only the position encoders make a sequential encoder require a fit
RequiresFitPositionOnly(keys) == "position" \in keys

\* enc.requires_fit of the sequential encoders of the test
RequiresFitSequential(keys) ==
    IF keys = AddEncoders \ {"position", "transformer"} THEN FALSE
    ELSE IF keys = AddEncoders \ {"transformer"} THEN TRUE
    ELSE IF keys = AddEncoders \ {"position"} THEN TRUE
    ELSE TRUE

\* enc = enc_cls(...) / enc = SequentialEncoder(add_encoders=...)
SingleEncoder(enc_cls) ==
    [kind |-> "single", cls |-> enc_cls, keys |-> {},
     requires_fit |-> RequiresFitSingle(enc_cls),
     fit_called |-> FALSE, trained |-> 0]
SequentialEncoder(keys) ==
    [kind |-> "sequential", cls |-> "SequentialEncoder", keys |-> keys,
     requires_fit |-> RequiresFitSequential(keys),
     fit_called |-> FALSE, trained |-> 0]

\* encode_train(target, covariate, merge_covariate); `trained` counts the calls
EncodeTrain ==
    /\ pc = "idle" /\ outcome = "none"
    /\ encoder.kind # "none"
    /\ encoder.trained < MaxEncodeCalls
    /\ \E merge_covs \in BOOLEAN :
        call' = [op |-> "encode_train", n |-> 0, merge_covariate |-> merge_covs]
    /\ encoder' = [encoder EXCEPT !.fit_called = TRUE, !.trained = @ + 1]
    /\ outcome' = "encoded"
    /\ UNCHANGED <<model_vars, pc, loop_vars, forecast, built, rng, settings>>

\* encode_inference(n, target, covariate, merge_covariate)
EncodeInference ==
    /\ pc = "idle" /\ outcome = "none"
    /\ encoder.kind # "none"
    /\ \E n \in {1, MaxN}, merge_covs \in BOOLEAN :
        call' = [op |-> "encode_inference", n |-> n, merge_covariate |-> merge_covs]
    /\ outcome' = IF encoder.requires_fit /\ ~encoder.fit_called
                    THEN "ValueError" ELSE "encoded"
    /\ UNCHANGED <<model_vars, pc, loop_vars, forecast, built, aux_vars>>

InitEncoders ==
    /\ lags = [target |-> <<-1>>, past |-> <<>>, future |-> <<>>]
    /\ output_chunk_length = 1
    /\ input_dim = NoneDim
    /\ model = Unfitted
    /\ probabilistic = FALSE
    /\ training_series = <<>>
    /\ covariate_series = NoMatrices
    /\ pc = "idle"
    /\ call = [op |-> "none"]
    /\ covariate_matrices = NoMatrices
    /\ series_matrix = <<>>
    /\ predictions = <<>>
    /\ X = <<>>
    /\ t_pred = 0
    /\ outcome = "none"
    /\ forecast = <<>>
    /\ built = [status |-> "none"]
    /\ tags = NoTags
    /\ wrapped = 0
    /\ likelihood = "none"
    /\ model_container = <<>>
    /\ rng = 0
    /\ settings = NoSettings
    /\ encoder \in {SingleEncoder(c) : c \in EncodersCls}
                       \cup {SequentialEncoder(k) : k \in SequentialConfigs}

NextEncoders == EncodeTrain \/ EncodeInference \/ CallerResumes

SpecEncoders == InitEncoders /\ [][NextEncoders]_vars

\* the encoders the claim calls fitted encoders: the integer-index (position)
\* encoders, and the sequential encoders with a position encoder or a transformer
NeedsFitting ==
    \/ encoder.kind = "single" /\ encoder.cls \in IntegerIndexEncoders
    \/ encoder.kind = "sequential" /\ encoder.keys \cap {"position", "transformer"} # {}

InferenceAsked == encoder.kind # "none" /\ call.op = "encode_inference"

AppendsBlock == call.op = "predict" /\ pc = "loop" /\ predictions' # predictions

\* predict returns
Returns == pc = "loop" /\ outcome' = "forecast"

\* C25: for horizon n and output_chunk_length L the regressor is invoked
\* exactly ceil(n / L) times, at the offsets 0, L, 2L, ..., one invocation after
\* the other: the feature rows of an invocation are assembled from the blocks
\* appended before it, and its block is appended before the next one starts.
C25_SequentialInvocations ==
    [][/\ AppendsBlock =>
            LET k == Len(predictions)
            IN  /\ Len(predictions') = k + 1
                /\ SubSeq(predictions', 1, k) = predictions
                /\ t_pred' = k * output_chunk_length
                /\ t_pred' < call.n
                /\ X' = [r \in 1..Rows |->
                            FeatureRow(lags, series_matrix, covariate_matrices,
                                       predictions, r, t_pred')]
                /\ predictions'[k + 1] = PredictAndSample(X', output_chunk_length, model)
       /\ Returns => Len(predictions) = Invocations(call.n, output_chunk_length)
      ]_vars

\* three steps in blocks of two: invoked at the offsets 0 and 2, then returned
C25_Witness ==
    /\ outcome = "forecast"
    /\ call.n = 3 /\ output_chunk_length = 2
    /\ Len(predictions) = 2 /\ t_pred = 2

\* the feature row and the output column a value of a block goes back to
RECURSIVE Origin(_)
Origin(v) ==
    CASE v.kind \in {"yhat", "mu", "sigma"} -> [x |-> v.x, j |-> v.j]
      [] v.kind = "normal" -> Origin(v.mu)
      [] v.kind = "poisson" -> Origin(v.lam)
      [] v.kind = "inter" -> Origin(v.left)
      [] OTHER -> [x |-> <<>>, j |-> -1]

\* rows i*S .. i*S + S - 1 of a replicated array of group g hold episode i
\* (the rows are counted from 1 here, and so are the episodes)
HoldsEpisodes(g, a) ==
    a # <<>> =>
        /\ Len(a) = Rows
        /\ \A e \in DOMAIN call.series, d \in 1..call.num_samples :
            LET row == a[(e - 1) * call.num_samples + d]
            IN  \A t \in DOMAIN row : \A c \in DOMAIN row[t] :
                    row[t][c].kind = g /\ row[t][c].e = e

\* the feature row of row r in the iteration that made block k
FeatureRowOfBlock(k, r) ==
    FeatureRow(lags, series_matrix, covariate_matrices, SubSeq(predictions, 1, k - 1),
               r, (k - 1) * output_chunk_length)

\* the value returned for episode e, step h, component c and draw d is the
\* value made for row (e - 1) * S + d, step h and component c
ReturnsValueOfRow(e, h, c, d) ==
    LET r == (e - 1) * call.num_samples + d
        k == ((h - 1) \div output_chunk_length) + 1
        step == (h - 1) % output_chunk_length
    IN  /\ Origin(forecast[e][h][c][d]) =
                [x |-> FeatureRowOfBlock(k, r), j |-> step * input_dim.target + (c - 1)]
        /\ (\A b \in DOMAIN predictions : WellShaped(predictions[b])) =>
                forecast[e][h][c][d] = Generated(r, h - 1, c)

InPredict == call.op = "predict" /\ outcome \in {"running", "forecast"}

\* C26: with E episodes and S draws the replicated arrays hold episode i in the
\* rows i*S .. i*S + S - 1; the value returned for episode i, step h, component
\* c and draw j is the value made for row i*S + j at step h and component c; and
\* the forecasts are one per episode of the call, in the order of the episodes.
C26_RowsOfEpisodes ==
    InPredict =>
        /\ HoldsEpisodes("target", series_matrix)
        /\ HoldsEpisodes("past", covariate_matrices.past)
        /\ HoldsEpisodes("future", covariate_matrices.future)
        /\ outcome = "forecast" =>
            /\ Len(forecast) = Len(call.series)
            /\ \A e \in DOMAIN forecast :
                /\ Len(forecast[e]) = call.n
                /\ \A h \in DOMAIN forecast[e] :
                    /\ Len(forecast[e][h]) = input_dim.target
                    /\ \A c \in DOMAIN forecast[e][h] :
                        /\ Len(forecast[e][h][c]) = call.num_samples
                        /\ \A d \in DOMAIN forecast[e][h][c] :
                                ReturnsValueOfRow(e, h, c, d)

\* what holds of the rows: the same, the Gaussian strategy drawing several
\* samples for several series apart
C26_RowsOfEpisodesButGaussian ==
    ~(InPredict /\ GaussianOnSeveralSeries) => C26_RowsOfEpisodes

\* a forecast of the Gaussian strategy that has the draws of a later step in
\* the place of a draw of the first step
C26_MisplacedDraws ==
    /\ call.op = "predict" /\ outcome = "forecast"
    /\ GaussianOnSeveralSeries
    /\ Origin(forecast[1][1][1][2]).j # 0

\* the coverage check has passed and an iteration of the loop is about to run
PendingIteration == call.op = "predict" /\ pc = "loop" /\ NextOffset < call.n

\* every position the iteration reads from the window of covariate group g is
\* inside the window, whose length is (ceil(n/L) - 1) * L + l_m - l_0 + 1
CovariateIndicesInside(g) ==
    covariate_matrices[g] # <<>> =>
        \A r \in 1..Rows, i \in DOMAIN lags[g] :
            LET index == (lags[g][i] - lags[g][1]) + NextOffset
                length == Len(covariate_matrices[g][r])
            IN  /\ length = (Invocations(call.n, output_chunk_length) - 1)
                                * output_chunk_length
                            + lags[g][Len(lags[g])] - lags[g][1] + 1
                /\ 0 <= index /\ index < length

\* every target lag reaches no further back than the trailing window and the
\* predictions made so far are long
TargetIndicesInside ==
    lags.target # <<>> =>
        \A r \in 1..Rows, i \in DOMAIN lags.target :
            -lags.target[i] <= Len(series_matrix[r])
                                 + Len(predictions) * output_chunk_length

\* C27: once the coverage check of predict has passed, every position read from
\* a covariate window in the loop is inside the window: (l_i - l_0) + t_pred is
\* at least 0 and less than the window's length (ceil(n/L) - 1) * L + l_m - l_0
\* + 1; likewise every target-lag index stays within the trailing window and
\* the predictions generated so far.
C27_IndicesInside ==
    PendingIteration =>
        /\ CovariateIndicesInside("past")
        /\ CovariateIndicesInside("future")
        /\ TargetIndicesInside

\* what holds of the indices: those of the covariate windows
C27_CovariateIndicesInside ==
    PendingIteration =>
        /\ CovariateIndicesInside("past")
        /\ CovariateIndicesInside("future")

\* the target series of the call is shorter than the model's deepest target
\* lag, and the loop has ended in an IndexError
C27_ShortHistory ==
    /\ call.op = "predict" /\ outcome = "IndexError"
    /\ lags.target # <<>>
    /\ \E e \in DOMAIN call.series : Len(call.series[e].vals) < -lags.target[1]

\* the steps after the end of the target series that the coverage check of
\* predict requires of the future covariates, for horizon n
StepsRequiredAhead(n) ==
    (Invocations(n, output_chunk_length) - 1) * output_chunk_length
        + lags.future[Len(lags.future)] + 1

StepsAsked == IsConstructed /\ encoder.kind = "steps"

\* C28: for a model with future lags, every horizon n >= 1 and every
\* output_chunk_length, _get_encoders_n(n) is at least the number of steps
\* after the end of the target series that the coverage check of predict
\* requires of the future covariates, (ceil(n/L) - 1) * L + max(future lags) + 1;
\* for a model without future lags _get_encoders_n(n) = n.
C28_EncoderSteps ==
    StepsAsked =>
        IF lags.future # <<>>
          THEN StepsRequiredAhead(encoder.n) <= encoder.steps
          ELSE encoder.steps = encoder.n

\* blocks of two for a horizon of three, future lags up to 1: the steps asked
\* for are exactly the steps required
C28_Witness ==
    /\ StepsAsked
    /\ lags.future # <<>> /\ lags.future[Len(lags.future)] = 1
    /\ output_chunk_length = 2 /\ encoder.n = 3
    /\ encoder.steps = StepsRequiredAhead(3)

\* the model has target lags alone
TargetOnly == lags.target # <<>> /\ lags.past = <<>> /\ lags.future = <<>>

\* no value of any target series of the call is missing
NaNFree ==
    \A idx \in DOMAIN call.target_series :
        \A t \in DOMAIN call.target_series[idx].vals :
            ~HasNaN(call.target_series[idx].vals[t])

\* every target series of the call has the model's minimal length
LongEnough ==
    \A idx \in DOMAIN call.target_series :
        Len(call.target_series[idx].vals) >= MinTrainSeriesLength

\* C29: for a model with target lags alone, NaN-free target series of at least
\* min_train_series_length = max(3, -min(target lags) + output_chunk_length)
\* values give at least one training row each, so the builder does not end
\* with the data-insufficiency error.
C29_MinimalLengthSuffices ==
    (Built /\ TargetOnly) =>
        /\ MinTrainSeriesLength
                = Max({3, -Min(ToSet(lags.target)) + output_chunk_length})
        /\ (NaNFree /\ LongEnough) =>
                /\ built.status = "ok"
                /\ EmptyEpisodes = {}
                /\ Len(built.X) >= Len(call.target_series)

\* a series of exactly the minimal length, which is above 3, has given one row
C29_Witness ==
    /\ Built /\ TargetOnly /\ NaNFree
    /\ MinTrainSeriesLength > 3
    /\ Len(call.target_series) = 1
    /\ Len(call.target_series[1].vals) = MinTrainSeriesLength
    /\ built.status = "ok" /\ Len(built.X) = 1

\* the target and the past offsets of the model are strictly negative
NegativeOffsets ==
    /\ \A i \in DOMAIN lags.target : lags.target[i] < 0
    /\ \A i \in DOMAIN lags.past : lags.past[i] < 0

\* C30: every model that is constructed has at least one non-empty lag group
\* (target, past or future), whatever the lag arguments, empty lists and the
\* future pair (0, 0) included, and its target and past offsets are all
\* strictly negative.
C30_SomeLagGroup ==
    IsConstructed =>
        /\ lags.target # <<>> \/ lags.past # <<>> \/ lags.future # <<>>
        /\ NegativeOffsets

\* what holds of the constructed models: the sign of the target and past offsets
C30_NegativeOffsets == IsConstructed => NegativeOffsets

\* a model constructed from an empty list, or from the pair (0, 0), and nothing
\* else: it has no lag group
C30_NoLagGroup ==
    /\ IsConstructed
    /\ lags = [target |-> <<>>, past |-> <<>>, future |-> <<>>]
    /\ \/ call.lags = ListArg(<<>>)
       \/ call.lags_future_covariates = TupleArg(<<0, 0>>)

====
